---- MODULE Spec2Model ----
(***************************************************************************)
(* A model of the looksrate face-analysis pipeline (analyzeFace and its    *)
(* helpers).                                                               *)
(*                                                                         *)
(* Numbers.  The program computes in IEEE doubles; the model computes in   *)
(* fixed point over the integers:                                          *)
(*   - coordinates and distances are in hundredths of a pixel (U = 1 px);  *)
(*   - ratios of two distances are in thousandths (R = 1.0);               *)
(*   - values on the 0..100 score scale that are not yet rounded are in    *)
(*     hundredths of a score point (P = 1 score point);                    *)
(*   - angles are in hundredths of a degree (D = 1 degree).                *)
(* A division keeps the floor of the quotient at that resolution.  The two *)
(* values of a double that are no number of the scale are kept apart:      *)
(* NaN (0/0, acos of 0/0) and Inf (x/0 with x > 0).                        *)
(***************************************************************************)
EXTENDS Integers, Sequences, FiniteSets, TLC

U == 100
R == 1000
P == 100
D == 100

NaN == 0 - 2000000000
Inf == 1000000000

IsNum(v) == v # NaN

\* Any operand NaN makes the result NaN.
NaNOr(operands, v) == IF NaN \in operands THEN NaN ELSE v

Abs(x) == IF x < 0 THEN 0 - x ELSE x
Max(a, b) == IF a >= b THEN a ELSE b
Min(a, b) == IF a <= b THEN a ELSE b

\* Math.round of n/d (d > 0): the nearest integer, halves towards +infinity.
RoundDiv(n, d) == (2 * n + d) \div (2 * d)

RECURSIVE ISqrtBetween(_, _, _)
ISqrtBetween(n, lo, hi) ==
    IF lo >= hi THEN lo
    ELSE LET mid == (lo + hi + 1) \div 2
         IN IF mid * mid <= n THEN ISqrtBetween(n, mid, hi)
            ELSE ISqrtBetween(n, lo, mid - 1)

\* Math.sqrt on the integer scale: the floor of the square root.
ISqrt(n) == ISqrtBetween(n, 0, 46340)

-----------------------------------------------------------------------------
(* Geometry kernel *)

clamp(x, a, b) == IF x = NaN THEN NaN ELSE Max(a, Min(x, b))

\* A faulty variant of norm without the clamp.
normUnclamped(x, min, max) ==
    IF x = NaN THEN NaN
    ELSE IF Abs(x) >= Inf THEN x
    ELSE ((x - min) * 100 * P) \div (max - min)

\* norm(x, min, max) for min < max (every call site passes distinct literal
\* bounds in that order).  x, min, max are on one scale; the result is in
\* hundredths of a score point.  The quotient is saturated before it is
\* scaled so that a large x (or Inf) does not overflow; the saturated value is
\* the one the clamp returns.
norm(x, min, max) ==
    IF x = NaN THEN NaN
    ELSE IF x - min >= max - min THEN clamp(100 * P, 0, 100 * P)
    ELSE IF x - min <= 0 - (max - min) THEN clamp(0 - 100 * P, 0, 100 * P)
    ELSE clamp(((x - min) * 100 * P) \div (max - min), 0, 100 * P)

Pt(x, y) == [x |-> x, y |-> y]

dist(p1, p2) ==
    ISqrt((p1.x - p2.x) * (p1.x - p2.x) + (p1.y - p2.y) * (p1.y - p2.y))

\* a / b for two distances (both >= 0), in thousandths.
Ratio(a, b) ==
    IF b = 0 THEN (IF a = 0 THEN NaN ELSE Inf)
    ELSE (a * R) \div b

-----------------------------------------------------------------------------
(* Landmark indices *)

RIGHT_EYE_INDICES ==
    <<33, 7, 163, 144, 145, 153, 154, 155, 133, 173, 157, 158, 159, 160, 161, 246>>
LEFT_EYE_INDICES ==
    <<263, 249, 390, 373, 374, 380, 381, 382, 362, 398, 384, 385, 386, 387, 388, 466>>
RIGHT_IRIS_INDICES == <<473, 474, 475, 476, 477>>
LEFT_IRIS_INDICES == <<468, 469, 470, 471, 472>>

Range(s) == {s[i] : i \in DOMAIN s}

\* The landmarks the program reads by index.  A keypoint set of the model is
\* [len, frame, pts]: its length, the raster whose pixel coordinates it is
\* in, and the points at the indices below that are < len.
ScoredIdx ==
    {10, 152, 234, 454, 123, 352, 172, 397, 14, 33, 133, 362, 263, 168, 9, 0,
     61, 291, 102, 331, 103, 332, 159, 145, 386, 374, 1, 13}
BaseIdx == ScoredIdx \cup Range(RIGHT_EYE_INDICES) \cup Range(LEFT_EYE_INDICES)
IrisIdx == Range(RIGHT_IRIS_INDICES) \cup Range(LEFT_IRIS_INDICES)
Tracked == BaseIdx \cup IrisIdx

MinPoints == 468

Present(kp) == {i \in Tracked : i < kp.len}

-----------------------------------------------------------------------------
(* Anatomical validator *)

\* A faulty variant of validateAnatomy that compares without the margin.
validateAnatomyNoMargin(kp) ==
    IF kp.len < MinPoints THEN FALSE
    ELSE /\ kp.pts[263].y < kp.pts[1].y /\ kp.pts[33].y < kp.pts[1].y
         /\ kp.pts[1].y < kp.pts[13].y
         /\ kp.pts[13].y < kp.pts[152].y
         /\ kp.pts[33].x < kp.pts[1].x /\ kp.pts[1].x < kp.pts[263].x

\* validateAnatomy(keypoints): the early returns of the code, in order.
\* faces[0].keypoints of an absent face is not evaluated by the callers
\* (faces.length === 0 short-circuits), so kp is always a keypoint set.
validateAnatomy(kp) ==
    IF kp.len < MinPoints THEN FALSE
    ELSE LET eyeLeft == kp.pts[263]
             eyeRight == kp.pts[33]
             nose == kp.pts[1]
             mouth == kp.pts[13]
             chin == kp.pts[152]
             forehead == kp.pts[10]
             faceHeight == dist(forehead, chin)
             yMargin == (faceHeight * 5) \div 100
         IN IF eyeLeft.y >= nose.y - yMargin \/ eyeRight.y >= nose.y - yMargin
              THEN FALSE
            ELSE IF nose.y >= mouth.y - yMargin THEN FALSE
            ELSE IF mouth.y >= chin.y - yMargin THEN FALSE
            ELSE IF eyeRight.x >= nose.x \/ nose.x >= eyeLeft.x THEN FALSE
            ELSE TRUE

-----------------------------------------------------------------------------
(* Landmark regularizer *)

\* The indices of a group that exist in a set of length len, in group order.
InSet(indices, len) == SelectSeq(indices, LAMBDA i : i < len)

RECURSIVE SumY(_, _)
SumY(pts, indices) ==
    IF indices = <<>> THEN 0
    ELSE pts[Head(indices)].y + SumY(pts, Tail(indices))

MinYOf(pts, S) == CHOOSE v \in {pts[i].y : i \in S} : \A i \in S : v <= pts[i].y
MaxYOf(pts, S) == CHOOSE v \in {pts[i].y : i \in S} : \A i \in S : v >= pts[i].y

ShiftY(pts, S, d) ==
    [i \in DOMAIN pts |-> IF i \in S THEN Pt(pts[i].x, pts[i].y + d) ELSE pts[i]]
ShiftX(pts, S, d) ==
    [i \in DOMAIN pts |-> IF i \in S THEN Pt(pts[i].x + d, pts[i].y) ELSE pts[i]]
SetY(pts, i, y) == [pts EXCEPT ![i] = Pt(pts[i].x, y)]
SetX(pts, i, x) == [pts EXCEPT ![i] = Pt(x, pts[i].y)]

\* A faulty variant of enforceZone that moves each offending point of the
\* group into the zone on its own.
enforceZoneEachPoint(pts, indices, len, zoneTop, zoneBottom) ==
    [i \in DOMAIN pts |->
        IF i \in Range(InSet(indices, len))
        THEN Pt(pts[i].x, Max(zoneTop, Min(zoneBottom, pts[i].y)))
        ELSE pts[i]]

\* enforceZone: the group's points that exist are shifted together.
enforceZone(pts, indices, len, zoneTop, zoneBottom) ==
    LET S == Range(InSet(indices, len))
        minY == MinYOf(pts, S)
        maxY == MaxYOf(pts, S)
        shiftY == IF maxY > zoneBottom THEN zoneBottom - maxY
                  ELSE IF minY < zoneTop THEN zoneTop - minY
                  ELSE 0
    IN IF shiftY # 0 THEN ShiftY(pts, S, shiftY) ELSE pts

\* The eye groups of regularizeLandmarks: the lid contour, and the iris
\* indices as soon as the set is longer than 468 points.
allRightEye(len) ==
    IF len > MinPoints THEN RIGHT_EYE_INDICES \o RIGHT_IRIS_INDICES
    ELSE RIGHT_EYE_INDICES
allLeftEye(len) ==
    IF len > MinPoints THEN LEFT_EYE_INDICES \o LEFT_IRIS_INDICES
    ELSE LEFT_EYE_INDICES

\* Steps 2 and 3 of regularizeLandmarks read kp[idx] for every index of the
\* group without the idx < kp.length test of enforceZone: with 468 < len <
\* 478 some kp[idx] is undefined and reading its .y raises a TypeError.
RegularizeThrows(kp) ==
    \E i \in Range(allRightEye(kp.len)) \cup Range(allLeftEye(kp.len)) :
        i >= kp.len

\* The measures regularizeLandmarks takes of its input before it changes
\* anything: forehead (10), chin (152) and cheeks (234, 454).
RegZones(p0) ==
    [faceHeight |-> Abs(p0[152].y - p0[10].y),
     faceWidth |-> Abs(p0[454].x - p0[234].x),
     faceTop |-> p0[10].y,
     eyeZoneTop |-> p0[10].y + (Abs(p0[152].y - p0[10].y) * 20) \div 100,
     eyeZoneBottom |-> p0[10].y + (Abs(p0[152].y - p0[10].y) * 55) \div 100]

\* 1. vertical zones: each eye group is moved into the eye zone.
RegEyeZones(pts, len, z) ==
    enforceZone(enforceZone(pts, allRightEye(len), len, z.eyeZoneTop, z.eyeZoneBottom),
                allLeftEye(len), len, z.eyeZoneTop, z.eyeZoneBottom)

\* A faulty variant of RegSeparation that closes only half of the deficit.
RegSeparationHalf(pts, len, z) ==
    LET minEyeSep == (z.faceWidth * 12) \div 100
        currentSep == pts[362].x - pts[133].x
    IN IF currentSep < minEyeSep
       THEN ShiftX(ShiftX(pts, Range(allRightEye(len)),
                          0 - (minEyeSep - currentSep) \div 4),
                   Range(allLeftEye(len)), (minEyeSep - currentSep) \div 4)
       ELSE pts

\* 2. horizontal separation of the inner eye corners (133, 362).
RegSeparation(pts, len, z) ==
    LET minEyeSep == (z.faceWidth * 12) \div 100
        currentSep == pts[362].x - pts[133].x
    IN IF currentSep < minEyeSep
       THEN ShiftX(ShiftX(pts, Range(allRightEye(len)),
                          0 - (minEyeSep - currentSep) \div 2),
                   Range(allLeftEye(len)), (minEyeSep - currentSep) \div 2)
       ELSE pts

\* The shifts of step 3 once both means are known.
LevelEyes(pts, len, z, rightEyeY, leftEyeY) ==
    IF Abs(rightEyeY - leftEyeY) < (z.faceHeight * 3) \div 100
    THEN ShiftY(ShiftY(pts, Range(allRightEye(len)),
                       (rightEyeY + leftEyeY) \div 2 - rightEyeY),
                Range(allLeftEye(len)), (rightEyeY + leftEyeY) \div 2 - leftEyeY)
    ELSE pts

\* 3. vertical leveling of the two eye groups.
RegLeveling(pts, len, z) ==
    LevelEyes(pts, len, z,
              SumY(pts, allRightEye(len)) \div Len(allRightEye(len)),
              SumY(pts, allLeftEye(len)) \div Len(allLeftEye(len)))

\* 4. nose tip (1): first the lower bound of the zone, then the upper.
RegNoseBottom(pts, z) ==
    IF pts[1].y > z.faceTop + (z.faceHeight * 75) \div 100
    THEN SetY(pts, 1, z.faceTop + (z.faceHeight * 75) \div 100)
    ELSE pts
\* A variant of the upper bound that tests against the margin it assigns.
RegNoseTopMargin(pts, z) ==
    IF pts[1].y < z.eyeZoneBottom + (z.faceHeight * 5) \div 100
    THEN SetY(pts, 1, z.eyeZoneBottom + (z.faceHeight * 5) \div 100)
    ELSE pts
RegNoseTop(pts, z) ==
    IF pts[1].y < z.eyeZoneBottom
    THEN SetY(pts, 1, z.eyeZoneBottom + (z.faceHeight * 5) \div 100)
    ELSE pts

\* 4. mouth centre (13).
RegMouth(pts, z) ==
    IF pts[13].y < z.faceTop + (z.faceHeight * 65) \div 100
    THEN SetY(pts, 13, z.faceTop + (z.faceHeight * 65) \div 100)
    ELSE pts

\* 5. jawline centering: the chin (152) against the cheeks' midpoint.
RegChin(pts, z) ==
    LET midCheekX == (pts[234].x + pts[454].x) \div 2
    IN IF Abs(pts[152].x - midCheekX) > (z.faceWidth * 10) \div 100
       THEN SetX(pts, 152, (pts[152].x + midCheekX) \div 2)
       ELSE pts

RegSteps(pts, len, z) ==
    RegChin(RegMouth(RegNoseTop(RegNoseBottom(
        RegLeveling(RegSeparation(RegEyeZones(pts, len, z), len, z), len, z),
        z), z), z), z)

\* regularizeLandmarks on a set it does not throw on.  It works on a copy
\* (keypoints.map(p => ({...p}))): the result is a new set, the argument is
\* not changed.
regularizeLandmarks(kp) ==
    [kp EXCEPT !.pts = RegSteps(kp.pts, kp.len, RegZones(kp.pts))]

\* The earlier variant of regularizeLandmarks (src/lib/analyzeFace.ts): the
\* eye zone ends at 50% of the face height, and only steps 1 and 4 exist.
RegZonesEarlier(p0) ==
    [RegZones(p0) EXCEPT
        !.eyeZoneBottom = p0[10].y + (Abs(p0[152].y - p0[10].y) * 50) \div 100]

RegStepsEarlier(pts, len, z) ==
    RegMouth(RegNoseTop(RegNoseBottom(RegEyeZones(pts, len, z), z), z), z)

regularizeLandmarksEarlier(kp) ==
    [kp EXCEPT !.pts = RegStepsEarlier(kp.pts, kp.len, RegZonesEarlier(kp.pts))]

\* The point objects behind a call.  The caller's sequence holds object i at
\* index i; the working sequence kp of the regularizer holds, at index i,
\* a fresh object (keypoints.map(p => ({...p})), numbered from 478 on) or the
\* caller's own object ([...keypoints] copies the array, not the points).
FreshObjects(pts) == [i \in DOMAIN pts |-> 478 + i]
SameObjects(pts) == [i \in DOMAIN pts |-> i]

\* The coordinates the caller reads from its own sequence after a call that
\* wrote the coordinates `after` into the objects `objects`.
CallerReads(objects, before, after) ==
    [i \in DOMAIN before |-> IF objects[i] = i THEN after[i] ELSE before[i]]

\* The caller's set after regularizeLandmarks(kp), in each variant.
CallerAfterRegularize(kp) ==
    [kp EXCEPT !.pts = CallerReads(FreshObjects(kp.pts), kp.pts,
                                   regularizeLandmarks(kp).pts)]
CallerAfterRegularizeEarlier(kp) ==
    [kp EXCEPT !.pts = CallerReads(SameObjects(kp.pts), kp.pts,
                                   regularizeLandmarksEarlier(kp).pts)]

-----------------------------------------------------------------------------
(* Alignment: cropAndAlignFace and its inverse map *)

TargetSize == 512

MinXOf(pts) == CHOOSE v \in {pts[i].x : i \in DOMAIN pts} : \A i \in DOMAIN pts : v <= pts[i].x
MaxXOf(pts) == CHOOSE v \in {pts[i].x : i \in DOMAIN pts} : \A i \in DOMAIN pts : v >= pts[i].x

\* The geometry cropAndAlignFace derives from the landmarks: the eye line
\* (dx, dy), whose angle is atan2(dy, dx), so that cos = dx/len and
\* sin = dy/len (atan2(0, 0) = 0: cos = 1, sin = 0); the bounding box centre;
\* and safeDim, the divisor of scale = (targetSize * 0.7) / safeDim.
AlignGeometry(landmarks) ==
    LET pts == landmarks.pts
        dx == pts[263].x - pts[33].x
        dy == pts[263].y - pts[33].y
        len == ISqrt(dx * dx + dy * dy)
        minX == MinXOf(pts)
        maxX == MaxXOf(pts)
        minY == MinYOf(pts, DOMAIN pts)
        maxY == MaxYOf(pts, DOMAIN pts)
        faceWidth == maxX - minX
        faceHeight == maxY - minY
        maxDim == Max(faceWidth, faceHeight)
    IN [cosN |-> IF len = 0 THEN 1 ELSE dx,
        sinN |-> IF len = 0 THEN 0 ELSE dy,
        len |-> IF len = 0 THEN 1 ELSE len,
        centerX |-> minX + faceWidth \div 2,
        centerY |-> minY + faceHeight \div 2,
        safeDim |-> IF maxDim > 0 THEN maxDim ELSE 100 * U]

\* targetSize * 0.7, in coordinate units.
ScaledTarget == (TargetSize * U * 7) \div 10

\* mapPointBack: canvas point -> source point.
\* (P - CenterCanvas) / scale -> rotate(+angle) -> + CenterSource.
mapPointBack(g, p) ==
    LET x1 == p.x - (TargetSize * U) \div 2
        y1 == p.y - (TargetSize * U) \div 2
        x2 == RoundDiv(x1 * g.safeDim, ScaledTarget)
        y2 == RoundDiv(y1 * g.safeDim, ScaledTarget)
        x3 == RoundDiv(x2 * g.cosN - y2 * g.sinN, g.len)
        y3 == RoundDiv(x2 * g.sinN + y2 * g.cosN, g.len)
    IN Pt(x3 + g.centerX, y3 + g.centerY)

\* refinedFaces[0].keypoints.map(p => mapPointBack(p)): a new set, in the
\* frame of the landmarks the canvas was built from.
MapBack(g, refined, toFrame) ==
    [len |-> refined.len, frame |-> toFrame,
     pts |-> [i \in DOMAIN refined.pts |-> mapPointBack(g, refined.pts[i])]]

\* The transform the canvas is drawn through (ctx.translate, scale, rotate,
\* translate): source point -> canvas point.
forwardPoint(g, p) ==
    LET x1 == p.x - g.centerX
        y1 == p.y - g.centerY
        x2 == RoundDiv(x1 * g.cosN + y1 * g.sinN, g.len)
        y2 == RoundDiv(y1 * g.cosN - x1 * g.sinN, g.len)
        x3 == RoundDiv(x2 * ScaledTarget, g.safeDim)
        y3 == RoundDiv(y2 * ScaledTarget, g.safeDim)
    IN Pt(x3 + (TargetSize * U) \div 2, y3 + (TargetSize * U) \div 2)

Forward(g, kp) ==
    [len |-> kp.len, frame |-> "canonical",
     pts |-> [i \in DOMAIN kp.pts |-> forwardPoint(g, kp.pts[i])]]

\* The earliest variant of cropAndAlignFace (src/lib/analyzeFace.ts:737)
\* divides by maxDim itself: scale = (targetSize * 0.7) / maxDim, which is
\* Infinity when every landmark is the same point (safeDim = 0 below).
AlignGeometryEarliest(landmarks) ==
    [AlignGeometry(landmarks) EXCEPT
        !.safeDim = Max(MaxXOf(landmarks.pts) - MinXOf(landmarks.pts),
                        MaxYOf(landmarks.pts, DOMAIN landmarks.pts)
                            - MinYOf(landmarks.pts, DOMAIN landmarks.pts))]

\* With scale = Infinity, x1 / scale = 0 for every canvas point: the centre
\* of the landmarks comes back.
mapPointBackEarliest(g, p) ==
    IF g.safeDim = 0 THEN Pt(g.centerX, g.centerY) ELSE mapPointBack(g, p)

\* The canvas ignores ctx.scale(Infinity, Infinity): the point is rotated
\* and translated only.
forwardPointEarliest(g, p) ==
    IF g.safeDim = 0
    THEN Pt(RoundDiv((p.x - g.centerX) * g.cosN + (p.y - g.centerY) * g.sinN, g.len)
                + (TargetSize * U) \div 2,
            RoundDiv((p.y - g.centerY) * g.cosN - (p.x - g.centerX) * g.sinN, g.len)
                + (TargetSize * U) \div 2)
    ELSE forwardPoint(g, p)

-----------------------------------------------------------------------------
(* Angles *)

\* atan(b / a) for 0 <= b <= a, a > 0, in hundredths of a degree, by the
\* polynomial 45 t + t (1 - t) (14.02 + 3.80 t), t = b / a (within 0.1
\* degree of the arctangent, exact at t = 0 and t = 1).
AtanFrac(b, a) ==
    LET k == a \div 40000 + 1
        t == ((b \div k) * 10000) \div Max(a \div k, 1)
        tt == Min(t, 10000)
        A == (tt * (10000 - tt)) \div 10000
        B == 1402 + (380 * tt) \div 10000
    IN (4500 * tt) \div 10000 + (A * B) \div 10000

\* Math.atan2(y, x) * 180 / Math.PI, in hundredths of a degree.
Atan2Deg(y, x) ==
    LET a == Abs(x)
        b == Abs(y)
        base == IF a = 0 /\ b = 0 THEN 0
                ELSE IF b <= a THEN AtanFrac(b, a)
                ELSE 90 * D - AtanFrac(a, b)
    IN IF x >= 0 THEN (IF y >= 0 THEN base ELSE 0 - base)
       ELSE (IF y >= 0 THEN 180 * D - base ELSE base - 180 * D)

\* calculateAngle(p1, p2, p3): acos(dot / (mag1 * mag2)) in degrees.  With a
\* zero-length ray the quotient is 0/0 and the result NaN; otherwise the
\* angle between the rays, which is atan2(|cross|, dot).
calculateAngle(p1, p2, p3) ==
    LET v1 == Pt(p1.x - p2.x, p1.y - p2.y)
        v2 == Pt(p3.x - p2.x, p3.y - p2.y)
        dot == v1.x * v2.x + v1.y * v2.y
        cross == v1.x * v2.y - v1.y * v2.x
        mag1 == ISqrt(v1.x * v1.x + v1.y * v1.y)
        mag2 == ISqrt(v2.x * v2.x + v2.y * v2.y)
    IN IF mag1 * mag2 = 0 THEN NaN ELSE Atan2Deg(Abs(cross), dot)

calculateCanthalTilt(inner, outer) ==
    Atan2Deg(inner.y - outer.y, outer.x - inner.x)

-----------------------------------------------------------------------------
(* Scoring helpers *)

\* A faulty variant of calculateSymmetry that scores coincident points 0.
calculateSymmetryZero(centerPoint, leftPoint, rightPoint) ==
    LET leftDist == dist(centerPoint, leftPoint)
        rightDist == dist(centerPoint, rightPoint)
        difference == Abs(leftDist - rightDist)
        sum == leftDist + rightDist
    IN IF sum > 0 THEN ((sum - 2 * difference) * 100 * P) \div sum
       ELSE 0

\* calculateSymmetry, in hundredths of a score point:
\* average > 0 ? (1 - difference / average) * 100 : 100.
calculateSymmetry(centerPoint, leftPoint, rightPoint) ==
    LET leftDist == dist(centerPoint, leftPoint)
        rightDist == dist(centerPoint, rightPoint)
        difference == Abs(leftDist - rightDist)
        sum == leftDist + rightDist
    IN IF sum > 0 THEN ((sum - 2 * difference) * 100 * P) \div sum
       ELSE 100 * P

PHI == 1618
MaxDeviation == 500

\* A faulty variant of calculateGoldenRatioScore that allows a deviation of
\* 1.0 instead of 0.5.
calculateGoldenRatioScoreWide(ratio) ==
    LET difference == Abs(ratio - PHI)
    IN IF ratio = NaN THEN NaN
       ELSE IF difference >= 2 * MaxDeviation THEN clamp(0, 0, 100 * P)
       ELSE clamp(((2 * MaxDeviation - difference) * 100 * P) \div (2 * MaxDeviation),
                  0, 100 * P)

\* calculateGoldenRatioScore(ratio), ratio in thousandths, result in
\* hundredths of a score point.  Math.max(0, NaN) is NaN.
calculateGoldenRatioScore(ratio) ==
    LET difference == Abs(ratio - PHI)
    IN IF ratio = NaN THEN NaN
       ELSE IF difference >= MaxDeviation THEN clamp(0, 0, 100 * P)
       ELSE clamp(((MaxDeviation - difference) * 100 * P) \div MaxDeviation,
                  0, 100 * P)

\* a / b > num / den for distances a, b (false when a / b is NaN).
RatioGt(a, b, num, den) ==
    IF b = 0 THEN a > 0 ELSE a * den > num * b

\* A faulty variant of determineFaceShape that takes jawWidth = 0.8 x
\* foreheadWidth for a Heart.
determineFaceShapeLoose(faceWidth, faceHeight, jawWidth, foreheadWidth) ==
    IF RatioGt(faceHeight, faceWidth, 145, 100)
    THEN IF RatioGt(jawWidth, foreheadWidth, 9, 10) THEN "Rectangular"
         ELSE IF jawWidth * 10 <= foreheadWidth * 8 THEN "Heart"
         ELSE "Oval"
    ELSE IF RatioGt(jawWidth, foreheadWidth, 9, 10) THEN "Square"
         ELSE "Round"

determineFaceShape(faceWidth, faceHeight, jawWidth, foreheadWidth) ==
    IF RatioGt(faceHeight, faceWidth, 145, 100)
    THEN IF RatioGt(jawWidth, foreheadWidth, 9, 10) THEN "Rectangular"
         ELSE IF jawWidth * 10 < foreheadWidth * 8 THEN "Heart"
         ELSE "Oval"
    ELSE IF RatioGt(jawWidth, foreheadWidth, 9, 10) THEN "Square"
         ELSE "Round"

SetMax(S) == CHOOSE v \in S : \A w \in S : v >= w

\* 100 - (maxDev / avg) * 300 floored at 0 and rounded, for n parts:
\* maxDev / avg = max |n * part - sum| / sum.
DeviationScore(parts) ==
    LET n == Len(parts)
        RECURSIVE SumOf(_)
        SumOf(s) == IF s = <<>> THEN 0 ELSE Head(s) + SumOf(Tail(s))
        sum == SumOf(parts)
        maxDevN == SetMax({Abs(n * parts[i] - sum) : i \in 1..n})
    IN IF sum = 0 THEN NaN
       ELSE IF 3 * maxDevN >= sum THEN 0
       ELSE RoundDiv(Max(0, 100 * P - (300 * P * maxDevN) \div sum), P)

\* (a + b) / 2 for two ratios or angles.
Mean2(a, b) ==
    IF a = NaN \/ b = NaN THEN NaN
    ELSE IF a = Inf \/ b = Inf THEN Inf
    ELSE (a + b) \div 2

\* Number(v.toFixed(k)) for v at resolution `from` per unit, kept at
\* resolution `to` per unit.
ToFixed(v, from, to) ==
    IF v = NaN \/ v = Inf THEN v ELSE RoundDiv(v * to, from)

-----------------------------------------------------------------------------
(* Metric extraction and scoring: the part of analyzeFace after the final  *)
(* validation.  q is the Quality Metrics triple of the image.             *)

\* The warnings of the earlier variant (src/lib/analyzeFace.ts).
WarningsEarlier(q) ==
    (IF q.sharpness <= 150 THEN {"low_sharpness"} ELSE {})
    \cup (IF q.brightness < 90 \/ q.brightness > 160 THEN {"bad_brightness"} ELSE {})

Warnings(q) ==
    (IF q.brightness < 40 THEN {"Lighting too dark"} ELSE {})
    \cup (IF q.brightness > 220 THEN {"Lighting too bright"} ELSE {})
    \cup (IF q.sharpness < 20 THEN {"Image blurry"} ELSE {})

\* The distances and angles analyzeFace extracts from the keypoints.
Measures(kp) ==
    [face_width |-> dist(kp.pts[234], kp.pts[454]),
     face_height |-> dist(kp.pts[10], kp.pts[152]),
     jaw_width |-> dist(kp.pts[172], kp.pts[397]),
     cheek_width |-> dist(kp.pts[123], kp.pts[352]),
     chin_length |-> dist(kp.pts[14], kp.pts[152]),
     forehead_width |-> dist(kp.pts[103], kp.pts[332]),
     nose_width |-> dist(kp.pts[102], kp.pts[331]),
     mouth_width |-> dist(kp.pts[61], kp.pts[291]),
     eyeSymmetry |-> calculateSymmetry(kp.pts[168], kp.pts[263], kp.pts[33]),
     cheekSymmetry |-> calculateSymmetry(kp.pts[168], kp.pts[123], kp.pts[352]),
     jawSymmetry |-> calculateSymmetry(kp.pts[168], kp.pts[172], kp.pts[397]),
     lipSymmetry |-> calculateSymmetry(kp.pts[168], kp.pts[61], kp.pts[291]),
     thirds |-> <<dist(kp.pts[10], kp.pts[9]), dist(kp.pts[9], kp.pts[0]),
                  dist(kp.pts[0], kp.pts[152])>>,
     fifths |-> <<dist(kp.pts[234], kp.pts[33]), dist(kp.pts[33], kp.pts[133]),
                  dist(kp.pts[133], kp.pts[362]), dist(kp.pts[362], kp.pts[263]),
                  dist(kp.pts[263], kp.pts[454])>>,
     tiltRight |-> calculateCanthalTilt(kp.pts[133], kp.pts[33]),
     tiltLeft |-> calculateCanthalTilt(kp.pts[362], kp.pts[263]),
     eyeHeightR |-> dist(kp.pts[159], kp.pts[145]),
     eyeWidthR |-> dist(kp.pts[133], kp.pts[33]),
     eyeHeightL |-> dist(kp.pts[386], kp.pts[374]),
     eyeWidthL |-> dist(kp.pts[362], kp.pts[263]),
     midfaceHeight |->
        dist(Pt((kp.pts[133].x + kp.pts[33].x + kp.pts[362].x + kp.pts[263].x) \div 4,
                (kp.pts[133].y + kp.pts[33].y + kp.pts[362].y + kp.pts[263].y) \div 4),
             kp.pts[14]),
     angleR |-> calculateAngle(kp.pts[234], kp.pts[172], kp.pts[152]),
     angleL |-> calculateAngle(kp.pts[454], kp.pts[397], kp.pts[152])]

\* The ratios and means of the measures.
Ratios(m) ==
    [jaw_ratio |-> Ratio(m.jaw_width, m.face_width),
     chin_ratio |-> Ratio(m.chin_length, m.face_height),
     cheek_ratio |-> Ratio(m.cheek_width, m.jaw_width),
     faceRatio |-> Ratio(m.face_height, m.face_width),
     mouthNoseRatio |-> Ratio(m.mouth_width, m.nose_width),
     canthal_tilt |-> Mean2(m.tiltRight, m.tiltLeft),
     eye_aspect_ratio |-> Mean2(Ratio(m.eyeHeightR, m.eyeWidthR),
                                Ratio(m.eyeHeightL, m.eyeWidthL)),
     midface_ratio |-> Ratio(m.midfaceHeight, m.cheek_width),
     jaw_angle |-> Mean2(m.angleR, m.angleL)]

\* Math.round(wa * a + wb * b + ...) for weights in tenths and terms in
\* hundredths of a score point; NaN if a term is.
Blend(weights, terms) ==
    LET RECURSIVE Dot(_)
        Dot(k) == IF k = 0 THEN 0 ELSE weights[k] * terms[k] + Dot(k - 1)
    IN NaNOr(Range(terms), RoundDiv(Dot(Len(terms)), 10 * P))

\* A rounded score (or NaN) on the scale of the unrounded ones.
Pts(v) == IF v = NaN THEN NaN ELSE v * P

JawlineScore(r) ==
    Blend(<<7, 3>>, <<norm(r.jaw_ratio, 600, 850), norm(r.chin_ratio, 80, 140)>>)

CheekbonesScore(r) == Blend(<<10>>, <<norm(r.cheek_ratio, 950, 1250)>>)

BrightScore(brightCenter) ==
    clamp(NaNOr({brightCenter}, 100 * P - Abs(brightCenter - 50 * P) * 2), 0, 100 * P)

SkinQualityScore(q) ==
    Blend(<<5, 3, 2>>,
          <<norm(q.sharpness, 50, 250), norm(q.contrast, 20, 70),
            BrightScore(norm(q.brightness, 80, 170))>>)

SymmetryScore(m) ==
    RoundDiv(m.eyeSymmetry + m.cheekSymmetry + m.jawSymmetry + m.lipSymmetry, 4 * P)

\* The scores that depend on the measures alone.
BaseScores(m, r, q) ==
    [jawline |-> JawlineScore(r),
     cheekbones |-> CheekbonesScore(r),
     skin_quality |-> SkinQualityScore(q),
     symmetry |-> SymmetryScore(m),
     scoreFaceRatio |-> calculateGoldenRatioScore(r.faceRatio),
     scoreNoseMouth |-> calculateGoldenRatioScore(r.mouthNoseRatio),
     facial_thirds |-> DeviationScore(m.thirds),
     facial_fifths |-> DeviationScore(m.fifths)]

GoldenRatioScore(b) ==
    NaNOr({b.scoreFaceRatio, b.scoreNoseMouth},
          RoundDiv(b.scoreFaceRatio + b.scoreNoseMouth, 2 * P))

ProportionsScore(b) ==
    NaNOr({b.facial_thirds, b.facial_fifths},
          RoundDiv(b.facial_thirds + b.facial_fifths, 2))

EyeScore(m, r) ==
    Blend(<<4, 3, 3>>,
          <<norm(r.canthal_tilt, 0 - 2 * D, 8 * D),
            norm(r.eye_aspect_ratio, 250, 450), m.eyeSymmetry>>)

NoseScore(b) == Blend(<<5, 5>>, <<b.scoreNoseMouth, Pts(b.facial_thirds)>>)

HunterEyeScore(hunterEar, hunterTilt) ==
    Blend(<<6, 4>>, <<NaNOr({hunterEar}, 100 * P - hunterEar), hunterTilt>>)

\* The scores blended from the base scores.
BlendedScores(m, r, b) ==
    [golden_ratio |-> GoldenRatioScore(b),
     proportions |-> ProportionsScore(b),
     eye_score |-> EyeScore(m, r),
     nose_score |-> NoseScore(b),
     hunterEyeScore |-> HunterEyeScore(norm(r.eye_aspect_ratio, 200, 400),
                                       norm(r.canthal_tilt, 0, 10 * D))]

HarmonyScore(b, c) ==
    Blend(<<3, 3, 2, 2>>,
          <<Pts(c.eye_score), Pts(c.nose_score), Pts(b.jawline), Pts(b.cheekbones)>>)

MasculinityScore(b, c) ==
    Blend(<<4, 3, 2, 1>>,
          <<Pts(b.jawline), Pts(b.cheekbones), Pts(c.hunterEyeScore),
            Pts(b.skin_quality)>>)

\* weightedSum, in hundredths of a score point.
WeightedSum(b, c, harmony) ==
    NaNOr({c.golden_ratio, harmony, c.proportions, b.jawline, b.cheekbones,
           b.skin_quality},
          25 * c.golden_ratio + 20 * b.symmetry + 15 * harmony
          + 15 * c.proportions + 10 * b.jawline + 8 * b.cheekbones
          + 7 * b.skin_quality)

\* A faulty variant of OverallScore that truncates instead of rounding.
OverallScoreFloor(weightedSum) ==
    NaNOr({weightedSum}, clamp(weightedSum, 0, 10 * 10 * P) \div (10 * P))

\* Math.round(clamp(weightedSum / 10, 0, 10))
OverallScore(weightedSum) ==
    NaNOr({weightedSum}, RoundDiv(clamp(weightedSum, 0, 10 * 10 * P), 10 * P))

\* Math.round(clamp(overall + (100 - softFactors) * 0.02, overall, 10)),
\* softFactors = (skin_quality + cheekbones) / 2.
PotentialScore(overall, skin_quality, cheekbones) ==
    NaNOr({overall, skin_quality, cheekbones},
          RoundDiv(clamp(100 * overall + (200 - skin_quality - cheekbones),
                         100 * overall, 10 * 100), 100))

\* The returned record.
Assemble(kp, q, m, r, b, c, harmony, overall) ==
    [overall |-> overall,
     potential |-> PotentialScore(overall, b.skin_quality, b.cheekbones),
     face_shape |-> determineFaceShape(m.face_width, m.face_height, m.jaw_width,
                                       m.forehead_width),
     symmetry |-> b.symmetry,
     golden_ratio |-> c.golden_ratio,
     proportions |-> c.proportions,
     harmony |-> harmony,
     skin_quality |-> b.skin_quality,
     jawline |-> b.jawline,
     cheekbones |-> b.cheekbones,
     facial_thirds |-> b.facial_thirds,
     facial_fifths |-> b.facial_fifths,
     eye_score |-> c.eye_score,
     nose_score |-> c.nose_score,
     masculinity |-> MasculinityScore(b, c),
     canthal_tilt |-> ToFixed(r.canthal_tilt, D, 10),
     midface_ratio |-> ToFixed(r.midface_ratio, R, 100),
     jaw_angle |-> ToFixed(r.jaw_angle, D, 10),
     eye_aspect_ratio |-> ToFixed(r.eye_aspect_ratio, R, 100),
     warnings |-> Warnings(q),
     landmarks |-> kp]

ScoreWithHarmony(kp, q, m, r, b, c, harmony) ==
    Assemble(kp, q, m, r, b, c, harmony, OverallScore(WeightedSum(b, c, harmony)))
ScoreWithBlended(kp, q, m, r, b, c) ==
    ScoreWithHarmony(kp, q, m, r, b, c, HarmonyScore(b, c))
ScoreWithBase(kp, q, m, r, b) ==
    ScoreWithBlended(kp, q, m, r, b, BlendedScores(m, r, b))
ScoreWithRatios(kp, q, m, r) == ScoreWithBase(kp, q, m, r, BaseScores(m, r, q))
ScoreWithMeasures(kp, q, m) == ScoreWithRatios(kp, q, m, Ratios(m))

\* The scoring part of analyzeFace: from the finalized keypoints and the
\* Quality Metrics to the AnalysisResult.
Score(keypoints, q) == ScoreWithMeasures(keypoints, q, Measures(keypoints))

-----------------------------------------------------------------------------
(* The detector's possible outputs.  The detector is an external black box: *)
(* the model draws what it returns from the keypoint sets below.            *)

\* Position k (1..16) of an eye contour: 1..9 the lower lid from the outer
\* to the inner corner, 10..16 the upper lid back towards the outer corner.
\* dir is +1 for the eye on the image's left (33..133), -1 for the other.
EyeContourPt(k, outerX, eyeY, dir) ==
    LET t == IF k <= 9 THEN k - 1 ELSE 17 - k
        dy == IF k \in {1, 9} THEN 0
              ELSE IF k = 5 THEN 300
              ELSE IF k = 13 THEN 0 - 300
              ELSE IF k < 9 THEN 200 ELSE 0 - 200
    IN Pt(outerX + dir * t * 250, eyeY + dy)

\* Position k (1..5) of an iris: the centre and four rim points.
IrisPt(k, cx, cy) ==
    CASE k = 1 -> Pt(cx, cy)
      [] k = 2 -> Pt(cx + 300, cy)
      [] k = 3 -> Pt(cx, cy - 300)
      [] k = 4 -> Pt(cx - 300, cy)
      [] OTHER -> Pt(cx, cy + 300)

IndexIn(seq, v) == CHOOSE k \in DOMAIN seq : seq[k] = v

\* An upright, mirror-symmetric face about x = 100 px: width 100 px,
\* height 161.8 px, equal fifths and thirds.
CanonPoint(i) ==
    CASE i = 10 -> Pt(10000, 2000)
      [] i = 152 -> Pt(10000, 18180)
      [] i = 234 -> Pt(5000, 8500)
      [] i = 454 -> Pt(15000, 8500)
      [] i = 123 -> Pt(4600, 11000)
      [] i = 352 -> Pt(15400, 11000)
      [] i = 172 -> Pt(5700, 15000)
      [] i = 397 -> Pt(14300, 15000)
      [] i = 14 -> Pt(10000, 16000)
      [] i = 168 -> Pt(10000, 8500)
      [] i = 9 -> Pt(10000, 7393)
      [] i = 0 -> Pt(10000, 12787)
      [] i = 61 -> Pt(5955, 15000)
      [] i = 291 -> Pt(14045, 15000)
      [] i = 102 -> Pt(7500, 12500)
      [] i = 331 -> Pt(12500, 12500)
      [] i = 103 -> Pt(5000, 4000)
      [] i = 332 -> Pt(15000, 4000)
      [] i = 1 -> Pt(10000, 12500)
      [] i = 13 -> Pt(10000, 15000)
      [] i \in Range(RIGHT_EYE_INDICES) ->
            EyeContourPt(IndexIn(RIGHT_EYE_INDICES, i), 7000, 8500, 1)
      [] i \in Range(LEFT_EYE_INDICES) ->
            EyeContourPt(IndexIn(LEFT_EYE_INDICES, i), 13000, 8500, 0 - 1)
      [] i \in Range(RIGHT_IRIS_INDICES) ->
            IrisPt(IndexIn(RIGHT_IRIS_INDICES, i), 8000, 8500)
      [] OTHER -> IrisPt(IndexIn(LEFT_IRIS_INDICES, i), 12000, 8500)

FaceOfLen(len, frame) ==
    [len |-> len, frame |-> frame,
     pts |-> [i \in {j \in Tracked : j < len} |-> CanonPoint(i)]]

\* Variations of a keypoint set.
MovePoint(kp, i, p) == [kp EXCEPT !.pts[i] = p]
MoveY(kp, S, d) == [kp EXCEPT !.pts = ShiftY(kp.pts, S \cap DOMAIN kp.pts, d)]
Translate(kp, dx, dy) ==
    [kp EXCEPT !.pts = [i \in DOMAIN kp.pts |->
                          Pt(kp.pts[i].x + dx, kp.pts[i].y + dy)]]
\* Rotation about (cx, cy) by the angle with cosine c/l and sine s/l.
RotateAbout(kp, cx, cy, c, sn, l) ==
    [kp EXCEPT !.pts = [i \in DOMAIN kp.pts |->
        LET x == kp.pts[i].x - cx
            y == kp.pts[i].y - cy
        IN Pt(cx + RoundDiv(x * c - y * sn, l), cy + RoundDiv(x * sn + y * c, l))]]
InFrame(kp, frame) == [kp EXCEPT !.frame = frame]

EyeIdx == Range(RIGHT_EYE_INDICES) \cup Range(LEFT_EYE_INDICES) \cup IrisIdx

Canon == FaceOfLen(478, "source")
Canon468 == FaceOfLen(MinPoints, "source")
PartialIris == FaceOfLen(470, "source")
Short == FaceOfLen(467, "source")
\* Eyes at the height of the nose tip: implausible.
EyesLow == MoveY(Canon, EyeIdx, 4000)
\* Nose tip and mouth centre high in the face and the chin 9 px off the
\* midline: plausible as detected.
HighNoseMouth ==
    MovePoint(MovePoint(MovePoint(Canon468, 1, Pt(10000, 10000)), 13, Pt(10000, 11500)),
              152, Pt(10900, 18180))
\* The landmarks of the image's right side collapsed onto the nose bridge.
Skewed ==
    LET a == Pt(13000, 8500)
    IN MovePoint(MovePoint(MovePoint(MovePoint(Canon, 168, a), 352, a), 397, a), 291, a)
\* The head rolled by atan(9/40), about 12.7 degrees.
Tilted == RotateAbout(Canon, 10000, 10090, 40, 9, 41)
\* Eyes drifted towards each other and one eye above the eye zone.
Drifted ==
    MoveY([Canon468 EXCEPT !.pts =
              ShiftX(ShiftX(Canon468.pts, Range(RIGHT_EYE_INDICES), 800),
                     Range(LEFT_EYE_INDICES), 0 - 800)],
          Range(RIGHT_EYE_INDICES), 0 - 3500)

DirectFaces ==
    {Canon, Canon468, PartialIris, Short, EyesLow, HighNoseMouth, Skewed, Tilted, Drifted}

\* What the detector may find on the canvas rotated by -5 degrees, in that
\* canvas's coordinates.
RotatedFaces ==
    {InFrame(Translate(Canon, 1500, 2500), "rotated"),
     InFrame(Translate(HighNoseMouth, 1500, 2500), "rotated"),
     InFrame(Translate(EyesLow, 1500, 2500), "rotated")}

\* What the detector may find on the canonical canvas built from `initial`:
\* the face it was built from, the same with the nose tip and an eye
\* relocated, an implausible one, and one with fewer points.
RefinedFaces(initial) ==
    LET g == AlignGeometry(initial)
        same == Forward(g, initial)
    IN {same,
        MovePoint(MoveY(same, Range(RIGHT_EYE_INDICES), 0 - 600), 1,
                  Pt(same.pts[1].x + 500, same.pts[1].y + 700)),
        MoveY(same, EyeIdx, 12000),
        [same EXCEPT !.len = MinPoints,
                     !.pts = [i \in {j \in DOMAIN same.pts : j < MinPoints} |->
                                 same.pts[i]]]}

\* getQualityMetrics (src/lib/quality.ts) on a grey image [kind, w, h, px]:
\* px[y * w + x + 1] is the luminance 0.299 r + 0.587 g + 0.114 b of pixel
\* (x, y), which for r = g = b is the grey level itself.  The metrics are
\* kept in whole units.
InvalidStateError == "InvalidStateError"
IndexSizeError == "IndexSizeError"

SumLum(px) ==
    LET RECURSIVE Sum(_)
        Sum(k) == IF k = 0 THEN 0 ELSE px[k] + Sum(k - 1)
    IN Sum(Len(px))
SumSqLum(px) ==
    LET RECURSIVE Sum(_)
        Sum(k) == IF k = 0 THEN 0 ELSE px[k] * px[k] + Sum(k - 1)
    IN Sum(Len(px))

\* lap * lap at the interior pixel (x, y).
LapSq(image, x, y) ==
    LET idx == y * image.w + x + 1
        lap == image.px[idx - image.w] + image.px[idx - 1] + image.px[idx + 1]
               + image.px[idx + image.w] - 4 * image.px[idx]
    IN lap * lap
LapVar(image) ==
    LET RECURSIVE Sum(_)
        Sum(k) == IF k = 0 THEN 0
                  ELSE LET x == (k - 1) % image.w
                           y == (k - 1) \div image.w
                       IN (IF x >= 1 /\ x < image.w - 1 /\ y >= 1 /\ y < image.h - 1
                           THEN LapSq(image, x, y) ELSE 0) + Sum(k - 1)
    IN Sum(Len(image.px))

\* The metrics of an image with count = data.length / 4 > 0 pixels.
QualityOf(image, count) ==
    [brightness |-> SumLum(image.px) \div count,
     contrast |-> ISqrt(Max(0, (SumSqLum(image.px) * count
                                - SumLum(image.px) * SumLum(image.px))
                               \div (count * count))),
     sharpness |-> ISqrt(LapVar(image) \div count)]

\* The outcome of getQualityMetrics.  hasCtx: getContext('2d') returned a
\* context.  With a zero width or height, drawImage of a canvas source
\* raises InvalidStateError, and getImageData(0, 0, w, h) raises
\* IndexSizeError; nothing in the function catches either.
getQualityMetrics(image, hasCtx) ==
    IF ~hasCtx
    THEN <<"result", [brightness |-> 0, contrast |-> 0, sharpness |-> 0]>>
    ELSE IF image.w * image.h = 0
         THEN <<"error", IF image.kind = "canvas" THEN InvalidStateError
                         ELSE IndexSizeError>>
         ELSE <<"result", QualityOf(image, image.w * image.h)>>

\* Quality Metrics triples of the images: ideal, dark and blurred, bright,
\* and the zeros getQualityMetrics returns without a 2D context.
QualitySet ==
    {[brightness |-> 125, contrast |-> 45, sharpness |-> 200],
     [brightness |-> 30, contrast |-> 10, sharpness |-> 10],
     [brightness |-> 235, contrast |-> 80, sharpness |-> 300],
     [brightness |-> 0, contrast |-> 0, sharpness |-> 0],
     [brightness |-> 125, contrast |-> 45, sharpness |-> 100]}

-----------------------------------------------------------------------------
(* analyzeFace as a state machine.  A step is the code between two awaits;  *)
(* pc names the await the run is suspended at.                              *)

VARIABLES
    pc,             \* "getDetector", "loadImage", "direct", "rotated", "refine", "done", "failed"
    detector,       \* the module-level cached handle: "null" or "handle"
    img,            \* <<>> or <<the loaded image's Quality Metrics>>
    faces,          \* the variable faces: <<>> or <<keypoint set>>
    calls,          \* the detector invocations so far, in order
    returns,        \* what each invocation did: "valid", "invalid", "empty" or "throw"
    rotatedCanvas,  \* createRotatedCanvas: "none", "built" or "failed"
    initial,        \* initialLandmarks of the refinement step
    refinedFaces,   \* refinedFaces: <<>> or <<keypoint set on the canvas>>
    refineFailure,  \* what threw inside the refinement try: "none", "canvas", "contrast", "detector"
    working,        \* keypoints as the refinement step leaves it
    keypoints,      \* keypoints after regularizeLandmarks
    result,         \* <<>> or <<the returned AnalysisResult>>
    error,          \* the message of the error the run failed with, or ""
    probe,          \* the pure functions' inputs and outputs (SpecPure)
    proc,           \* the calls of one process and its cached detector (SpecProcess)
    page,           \* the state of the Home component and its running handlers (SpecPage)
    camera          \* the CameraCapture instances mounted so far (SpecPage)

vars == <<pc, detector, img, faces, calls, returns, rotatedCanvas, initial,
          refinedFaces, refineFailure, working, keypoints, result, error, probe,
          proc, page, camera>>

NoKp == [len |-> 0, frame |-> "none", pts |-> [i \in {} |-> Pt(0, 0)]]
NoProbe == [fn |-> "none"]
NoProc == [detector |-> 0, created |-> 0, pc |-> <<>>, handle |-> <<>>]

\* The Home component as useState initialises it, with no handler running:
\* no image and no result on either tab.  "null" stands for null.
Tabs == {"front", "side"}
NoRun == [pc |-> "idle", tab |-> "front", mounted |-> FALSE, src |-> "null"]
NoPage ==
    [activeTab |-> "front",
     image |-> [t \in Tabs |-> "null"],
     result |-> [t \in Tabs |-> "null"],
     loading |-> FALSE,
     error |-> "null",
     showCamera |-> FALSE,
     reader |-> <<>>,
     run |-> NoRun]

INVALID_FACE_ANGLE == "INVALID_FACE_ANGLE"
FACE_ALIGNMENT_ERROR == "FACE_ALIGNMENT_ERROR"
NO_FACE_DETECTED == "NO_FACE_DETECTED"
\* Errors that are none of analyzeFace's own: the rejections of the awaited
\* promises and the TypeError of reading a point that does not exist.
DetectorInitError == "createDetector rejected"
ImageLoadError == "image load failed"
DetectorError == "estimateFaces rejected"
TypeError == "TypeError"

Cur ==
    [pc |-> pc, detector |-> detector, img |-> img, faces |-> faces,
     calls |-> calls, returns |-> returns, rotatedCanvas |-> rotatedCanvas,
     initial |-> initial, refinedFaces |-> refinedFaces,
     refineFailure |-> refineFailure, working |-> working,
     keypoints |-> keypoints, result |-> result, error |-> error]

Becomes(st) ==
    /\ pc' = st.pc
    /\ detector' = st.detector
    /\ img' = st.img
    /\ faces' = st.faces
    /\ calls' = st.calls
    /\ returns' = st.returns
    /\ rotatedCanvas' = st.rotatedCanvas
    /\ initial' = st.initial
    /\ refinedFaces' = st.refinedFaces
    /\ refineFailure' = st.refineFailure
    /\ working' = st.working
    /\ keypoints' = st.keypoints
    /\ result' = st.result
    /\ error' = st.error
    /\ UNCHANGED <<probe, proc, page, camera>>

Throw(st, message) == [st EXCEPT !.pc = "failed", !.error = message]

\* A faulty variant of Finish that scores the regularized set without the
\* last validation.
FinishUnchecked(st, kp) ==
    LET s1 == [st EXCEPT !.working = kp]
    IN IF RegularizeThrows(kp) THEN Throw(s1, TypeError)
       ELSE LET reg == regularizeLandmarks(kp)
                s2 == [s1 EXCEPT !.keypoints = reg]
            IN [s2 EXCEPT !.pc = "done", !.result = <<Score(reg, s2.img[1])>>]

\* keypoints = regularizeLandmarks(keypoints); the last validation; the
\* scores; the return.
Finish(st, kp) ==
    LET s1 == [st EXCEPT !.working = kp]
    IN IF RegularizeThrows(kp) THEN Throw(s1, TypeError)
       ELSE LET reg == regularizeLandmarks(kp)
                s2 == [s1 EXCEPT !.keypoints = reg]
            IN IF ~validateAnatomy(reg) THEN Throw(s2, FACE_ALIGNMENT_ERROR)
               ELSE [s2 EXCEPT !.pc = "done",
                               !.result = <<Score(reg, s2.img[1])>>]

\* if (faces.length === 0 || !validateAnatomy(faces[0].keypoints))
FacesInvalid(fs) == fs = <<>> \/ ~validateAnatomy(fs[1])

\* How the run judged what a detector invocation returned.
Outcome(fs) ==
    IF fs = <<>> THEN "empty"
    ELSE IF validateAnatomy(fs[1]) THEN "valid" ELSE "invalid"

\* A faulty variant of Refine that reports an unusable detection as
\* FACE_ALIGNMENT_ERROR.
RefineAlignmentError(st, crop) ==
    IF FacesInvalid(st.faces) THEN Throw(st, FACE_ALIGNMENT_ERROR)
    ELSE LET s1 == [st EXCEPT !.initial = st.faces[1]]
         IN IF crop = "ok"
            THEN [s1 EXCEPT !.pc = "refine",
                            !.calls = Append(st.calls, "canonical")]
            ELSE Finish([s1 EXCEPT !.refineFailure = crop], st.faces[1])

\* From the check before the refinement step up to the next await: throw
\* INVALID_FACE_ANGLE, or build the canonical canvas (crop is what
\* cropAndAlignFace does: "ok", or it throws building the canvas or
\* enhancing the contrast) and call the detector on it.
Refine(st, crop) ==
    IF FacesInvalid(st.faces) THEN Throw(st, INVALID_FACE_ANGLE)
    ELSE LET s1 == [st EXCEPT !.initial = st.faces[1]]
         IN IF crop = "ok"
            THEN [s1 EXCEPT !.pc = "refine",
                            !.calls = Append(st.calls, "canonical")]
            ELSE Finish([s1 EXCEPT !.refineFailure = crop], st.faces[1])

\* A faulty variant of AfterDirect that never retries on the rotated canvas.
AfterDirectNoRetry(st, fs, canvasBuilt, crop) ==
    Refine([st EXCEPT !.faces = fs, !.returns = Append(st.returns, Outcome(fs))],
           crop)

\* A faulty variant of AfterDirect that retries on the rotated canvas
\* whatever the direct pass returned.
AfterDirectAlwaysRetry(st, fs, canvasBuilt, crop) ==
    LET s1 == [st EXCEPT !.faces = fs, !.returns = Append(st.returns, Outcome(fs))]
    IN IF canvasBuilt
       THEN [s1 EXCEPT !.rotatedCanvas = "built", !.pc = "rotated",
                       !.calls = Append(st.calls, "rotated")]
       ELSE Refine([s1 EXCEPT !.rotatedCanvas = "failed"], crop)

\* The direct pass has returned fs.  If it is unusable, the rotated canvas
\* is built (canvasBuilt) and the detector called on it; a failure to build
\* it is caught and ignored.
AfterDirect(st, fs, canvasBuilt, crop) ==
    LET s1 == [st EXCEPT !.faces = fs,
                         !.returns = Append(st.returns, Outcome(fs))]
    IN IF FacesInvalid(fs)
       THEN IF canvasBuilt
            THEN [s1 EXCEPT !.rotatedCanvas = "built", !.pc = "rotated",
                            !.calls = Append(st.calls, "rotated")]
            ELSE Refine([s1 EXCEPT !.rotatedCanvas = "failed"], crop)
       ELSE Refine(s1, crop)

\* The rotated retry has returned fs: faces = fs, then the check.
AfterRotated(st, fs, crop) ==
    Refine([st EXCEPT !.faces = fs,
                      !.returns = Append(st.returns, Outcome(fs))],
           crop)

\* A faulty variant of AfterRotatedThrow without the try/catch: the
\* rejection escapes.
RotatedThrowEscapes(st, crop) ==
    Throw([st EXCEPT !.returns = Append(st.returns, "throw")], DetectorError)

\* The rotated retry threw: caught and ignored, faces is what it was.
AfterRotatedThrow(st, crop) ==
    Refine([st EXCEPT !.returns = Append(st.returns, "throw")], crop)

\* A faulty variant of AfterRefined that adopts the mapped set without
\* validating it.
AfterRefinedUnvalidated(st, rf) ==
    LET initialLandmarks == st.initial
        mappedPoints == MapBack(AlignGeometry(initialLandmarks), rf[1],
                                initialLandmarks.frame)
        s1 == [st EXCEPT !.refinedFaces = rf,
                         !.returns = Append(st.returns,
                                            IF rf = <<>> THEN "empty"
                                            ELSE Outcome(<<mappedPoints>>))]
    IN IF rf # <<>> THEN Finish(s1, mappedPoints)
       ELSE Finish(s1, initialLandmarks)

\* The re-detection on the canonical canvas has returned rf.
AfterRefined(st, rf) ==
    LET initialLandmarks == st.initial
        mappedPoints == MapBack(AlignGeometry(initialLandmarks), rf[1],
                                initialLandmarks.frame)
        s1 == [st EXCEPT !.refinedFaces = rf,
                         !.returns = Append(st.returns,
                                            IF rf = <<>> THEN "empty"
                                            ELSE Outcome(<<mappedPoints>>))]
    IN IF rf # <<>>
       THEN IF validateAnatomy(mappedPoints) THEN Finish(s1, mappedPoints)
            ELSE Finish(s1, initialLandmarks)
       ELSE Finish(s1, initialLandmarks)

\* A faulty variant of AfterRefinedThrow without the try/catch: the
\* rejection escapes.
RefinedThrowEscapes(st) ==
    Throw([st EXCEPT !.refineFailure = "detector",
                     !.returns = Append(st.returns, "throw")],
          DetectorError)

\* The re-detection threw: caught, keypoints = faces[0].keypoints.
AfterRefinedThrow(st) ==
    Finish([st EXCEPT !.refineFailure = "detector",
                      !.returns = Append(st.returns, "throw")],
           st.faces[1])

CropOutcomes == {"ok", "canvas", "contrast"}

Init ==
    /\ pc = "getDetector"
    /\ detector = "null"
    /\ img = <<>>
    /\ faces = <<>>
    /\ calls = <<>>
    /\ returns = <<>>
    /\ rotatedCanvas = "none"
    /\ initial = NoKp
    /\ refinedFaces = <<>>
    /\ refineFailure = "none"
    /\ working = NoKp
    /\ keypoints = NoKp
    /\ result = <<>>
    /\ error = ""
    /\ probe = NoProbe
    /\ proc = NoProc
    /\ page = NoPage
    /\ camera = <<>>

\* getDetector: createDetector resolves and the handle is cached.
DetectorCreated ==
    /\ pc = "getDetector"
    /\ Becomes([Cur EXCEPT !.detector = "handle", !.pc = "loadImage"])

DetectorCreationFails ==
    /\ pc = "getDetector"
    /\ Becomes(Throw(Cur, DetectorInitError))

\* loadImage resolves; the direct pass is started.
ImageLoaded ==
    /\ pc = "loadImage"
    /\ \E q \in QualitySet :
          Becomes([Cur EXCEPT !.img = <<q>>, !.pc = "direct",
                              !.calls = Append(calls, "direct")])

ImageLoadFails ==
    /\ pc = "loadImage"
    /\ Becomes(Throw(Cur, ImageLoadError))

DirectReturns ==
    /\ pc = "direct"
    /\ \E fs \in {<<>>} \cup {<<f>> : f \in DirectFaces},
          canvasBuilt \in BOOLEAN, crop \in CropOutcomes :
          Becomes(AfterDirect(Cur, fs, canvasBuilt, crop))

DirectThrows ==
    /\ pc = "direct"
    /\ Becomes(Throw([Cur EXCEPT !.returns = Append(returns, "throw")],
                     DetectorError))

RotatedReturns ==
    /\ pc = "rotated"
    /\ \E fs \in {<<>>} \cup {<<f>> : f \in RotatedFaces}, crop \in CropOutcomes :
          Becomes(AfterRotated(Cur, fs, crop))

RotatedThrows ==
    /\ pc = "rotated"
    /\ \E crop \in CropOutcomes : Becomes(AfterRotatedThrow(Cur, crop))

RefinedReturns ==
    /\ pc = "refine"
    /\ \E rf \in {<<>>} \cup {<<f>> : f \in RefinedFaces(initial)} :
          Becomes(AfterRefined(Cur, rf))

RefinedThrows ==
    /\ pc = "refine"
    /\ Becomes(AfterRefinedThrow(Cur))

Next ==
    \/ DetectorCreated
    \/ DetectorCreationFails
    \/ ImageLoaded
    \/ ImageLoadFails
    \/ DirectReturns
    \/ DirectThrows
    \/ RotatedReturns
    \/ RotatedThrows
    \/ RefinedReturns
    \/ RefinedThrows

Spec == Init /\ [][Next]_vars

-----------------------------------------------------------------------------
(* getDetector over the lifetime of a process: NCalls calls of analyzeFace *)
(* in any interleaving.  A call runs from its start to its first await     *)
(* (await createDetector(...)) without interruption; other calls run while *)
(* it is suspended there.                                                  *)
(*   proc.detector  the module-level variable: 0 (null) or a handle        *)
(*   proc.created   the number of createDetector invocations so far; the   *)
(*                  k-th invocation resolves to handle k                   *)
(*   proc.pc[c]     "start", "creating", "running", "failed" or "done"     *)
(*   proc.handle[c] the handle call c is waiting for or has obtained       *)

NCalls == 3
Callers == 1..NCalls

InitProcess ==
    /\ pc = "getDetector"
    /\ detector = "null"
    /\ img = <<>>
    /\ faces = <<>>
    /\ calls = <<>>
    /\ returns = <<>>
    /\ rotatedCanvas = "none"
    /\ initial = NoKp
    /\ refinedFaces = <<>>
    /\ refineFailure = "none"
    /\ working = NoKp
    /\ keypoints = NoKp
    /\ result = <<>>
    /\ error = ""
    /\ probe = NoProbe
    /\ proc = [detector |-> 0, created |-> 0,
               pc |-> [c \in Callers |-> "start"],
               handle |-> [c \in Callers |-> 0]]
    /\ page = NoPage
    /\ camera = <<>>

ProcessUnchanged ==
    UNCHANGED <<pc, detector, img, faces, calls, returns, rotatedCanvas,
                initial, refinedFaces, refineFailure, working, keypoints,
                result, error, probe, page, camera>>

\* if (detector) return detector;
GetDetectorCached(c) ==
    /\ proc.pc[c] = "start"
    /\ proc.detector # 0
    /\ proc' = [proc EXCEPT !.pc[c] = "running", !.handle[c] = proc.detector]
    /\ ProcessUnchanged

\* detector is null: createDetector is invoked and the call awaits it.
GetDetectorCreates(c) ==
    /\ proc.pc[c] = "start"
    /\ proc.detector = 0
    /\ proc' = [proc EXCEPT !.pc[c] = "creating", !.created = proc.created + 1,
                            !.handle[c] = proc.created + 1]
    /\ ProcessUnchanged

\* The awaited createDetector resolves: detector = <its handle>; return it.
CreateResolves(c) ==
    /\ proc.pc[c] = "creating"
    /\ proc' = [proc EXCEPT !.pc[c] = "running", !.detector = proc.handle[c]]
    /\ ProcessUnchanged

\* The awaited createDetector rejects: the call fails, detector stays as it is.
CreateRejects(c) ==
    /\ proc.pc[c] = "creating"
    /\ proc' = [proc EXCEPT !.pc[c] = "failed", !.handle[c] = 0]
    /\ ProcessUnchanged

\* The rest of the call, with the handle getDetector returned to it.
CallCompletes(c) ==
    /\ proc.pc[c] = "running"
    /\ proc' = [proc EXCEPT !.pc[c] = "done"]
    /\ ProcessUnchanged

NextProcess ==
    \/ \E c \in Callers : GetDetectorCached(c)
    \/ \E c \in Callers : GetDetectorCreates(c)
    \/ \E c \in Callers : CreateResolves(c)
    \/ \E c \in Callers : CreateRejects(c)
    \/ \E c \in Callers : CallCompletes(c)

SpecProcess == InitProcess /\ [][NextProcess]_vars

-----------------------------------------------------------------------------
(* The Home component (src/app/page.tsx) and the CameraCapture component   *)
(* it mounts (src/components/CameraCapture.tsx).  A step is one event      *)
(* handler or the code of an async function between two awaits.            *)
(*                                                                         *)
(*   page.image[t], page.result[t]  the stored image of tab t, and the     *)
(*       image its stored result was computed from ("null": none)          *)
(*   page.reader   <<>> or <<[tab, data]>>: a FileReader that is loading,  *)
(*       with the activeTab its onload closure has captured                *)
(*   page.run      the call of processImage in flight: pc is "idle",       *)
(*       "delay" (the 100 ms timeout), "detector" (analyzeFace awaits      *)
(*       getDetector, holding the <img> element) or "analysing" (the       *)
(*       source has been read); tab is the activeTab its closure captured; *)
(*       mounted and src describe the element it holds                     *)
(*   camera[i]     the i-th mounted CameraCapture: mounted, gum (the       *)
(*       getUserMedia promise: "pending", "resolved", "rejected"), live    *)
(*       (its stream's tracks are live), failed (its error state is set)   *)

Images == {"a", "b"}
\* canvas.toDataURL of a 0 x 0 canvas: the video has no frame yet.
BlankImage == "data:,"
MaxMounts == 2
Mounts == 1..MaxMounts

currentImage(p) == p.image[p.activeTab]

\* A render: the <img> element exists while currentImage is set, and its src
\* follows currentImage; once unmounted it keeps the src it had.
Render(p) ==
    IF p.run.pc = "detector" /\ p.run.mounted
    THEN IF currentImage(p) = "null" THEN [p EXCEPT !.run.mounted = FALSE]
         ELSE [p EXCEPT !.run.src = currentImage(p)]
    ELSE p

\* setImage of the render in which activeTab was tab.
setImage(p, tab, image) ==
    [p EXCEPT !.image[tab] = image, !.result[tab] = "null", !.error = "null"]

\* The cleanup of the effect of a mounted CameraCapture: its stream's tracks
\* are stopped if the stream variable has been assigned.
Unmount(cams) ==
    [i \in DOMAIN cams |->
        IF cams[i].mounted
        THEN [cams[i] EXCEPT !.mounted = FALSE,
                             !.live = IF cams[i].gum = "resolved" THEN FALSE
                                      ELSE cams[i].live]
        ELSE cams[i]]

InitPage ==
    /\ pc = "getDetector"
    /\ detector = "null"
    /\ img = <<>>
    /\ faces = <<>>
    /\ calls = <<>>
    /\ returns = <<>>
    /\ rotatedCanvas = "none"
    /\ initial = NoKp
    /\ refinedFaces = <<>>
    /\ refineFailure = "none"
    /\ working = NoKp
    /\ keypoints = NoKp
    /\ result = <<>>
    /\ error = ""
    /\ probe = NoProbe
    /\ proc = NoProc
    /\ page = NoPage
    /\ camera = <<>>

PageUnchanged ==
    UNCHANGED <<pc, detector, img, faces, calls, returns, rotatedCanvas,
                initial, refinedFaces, refineFailure, working, keypoints,
                result, error, probe, proc>>

\* A tab button: setActiveTab(t).  The camera modal covers the page.
setActiveTab(t) ==
    /\ ~page.showCamera
    /\ t # page.activeTab
    /\ page' = Render([page EXCEPT !.activeTab = t])
    /\ UNCHANGED camera
    /\ PageUnchanged

\* handleFileUpload: the upload button exists while the tab has no image;
\* the reader starts loading the chosen file.
handleFileUpload(data) ==
    /\ ~page.showCamera
    /\ currentImage(page) = "null"
    /\ page.reader = <<>>
    /\ page' = [page EXCEPT !.reader = <<[tab |-> page.activeTab, data |-> data]>>]
    /\ UNCHANGED camera
    /\ PageUnchanged

\* reader.onload: setImage(event.target.result); setError(null).
ReaderOnload ==
    /\ page.reader # <<>>
    /\ page' = Render([setImage(page, page.reader[1].tab, page.reader[1].data)
                          EXCEPT !.reader = <<>>])
    /\ UNCHANGED camera
    /\ PageUnchanged

\* The Clear button, enabled while the tab has an image: setImage(null).
Clear ==
    /\ ~page.showCamera
    /\ currentImage(page) # "null"
    /\ page' = Render(setImage(page, page.activeTab, "null"))
    /\ UNCHANGED camera
    /\ PageUnchanged

\* processImage up to its first await; the button is disabled without an
\* image and while loading.
processImage ==
    /\ ~page.showCamera
    /\ currentImage(page) # "null"
    /\ ~page.loading
    /\ page' = [page EXCEPT !.loading = TRUE, !.error = "null",
                            !.run = [pc |-> "delay", tab |-> page.activeTab,
                                     mounted |-> FALSE, src |-> "null"]]
    /\ UNCHANGED camera
    /\ PageUnchanged

\* The timeout has elapsed: analyzeFace(imageRef.current) is called and
\* awaits getDetector().
DelayElapsed ==
    /\ page.run.pc = "delay"
    /\ page' = [page EXCEPT !.run.pc = "detector",
                            !.run.mounted = (currentImage(page) # "null"),
                            !.run.src = currentImage(page)]
    /\ UNCHANGED camera
    /\ PageUnchanged

\* getDetector() has resolved: analyzeFace reads imageSource.src and loads
\* it; with imageRef.current null the read raises a TypeError, which
\* processImage catches (setError, then setLoading(false)).
SourceRead ==
    /\ page.run.pc = "detector"
    /\ page' = IF page.run.src = "null"
               THEN [page EXCEPT !.error = "other", !.loading = FALSE, !.run = NoRun]
               ELSE [page EXCEPT !.run.pc = "analysing"]
    /\ UNCHANGED camera
    /\ PageUnchanged

\* analyzeFace resolves: setFrontResult / setSideResult by the activeTab of
\* the closure, then setLoading(false).
AnalysisResolves ==
    /\ page.run.pc = "analysing"
    /\ page' = [page EXCEPT !.result[page.run.tab] = page.run.src,
                            !.loading = FALSE, !.run = NoRun]
    /\ UNCHANGED camera
    /\ PageUnchanged

\* analyzeFace rejects: setError by the kind of error, then setLoading(false).
AnalysisRejects(kind) ==
    /\ page.run.pc = "analysing"
    /\ page' = [page EXCEPT !.error = kind, !.loading = FALSE, !.run = NoRun]
    /\ UNCHANGED camera
    /\ PageUnchanged

\* The Use Camera button: setShowCamera(true); CameraCapture mounts and its
\* effect calls startCamera, which awaits getUserMedia.
OpenCamera ==
    /\ ~page.showCamera
    /\ currentImage(page) = "null"
    /\ Len(camera) < MaxMounts
    /\ page' = [page EXCEPT !.showCamera = TRUE]
    /\ camera' = Append(camera, [mounted |-> TRUE, gum |-> "pending",
                                 live |-> FALSE, failed |-> FALSE])
    /\ PageUnchanged

\* getUserMedia resolves: stream = <the stream>, its tracks are live.
GetUserMediaResolves(i) ==
    /\ i \in DOMAIN camera
    /\ camera[i].gum = "pending"
    /\ camera' = [camera EXCEPT ![i].gum = "resolved", ![i].live = TRUE]
    /\ UNCHANGED page
    /\ PageUnchanged

\* getUserMedia rejects: setError(...).
GetUserMediaRejects(i) ==
    /\ i \in DOMAIN camera
    /\ camera[i].gum = "pending"
    /\ camera' = [camera EXCEPT ![i].gum = "rejected", ![i].failed = camera[i].mounted]
    /\ UNCHANGED page
    /\ PageUnchanged

\* The close button: onClose, setShowCamera(false); CameraCapture unmounts.
CloseCamera ==
    /\ page.showCamera
    /\ page' = [page EXCEPT !.showCamera = FALSE]
    /\ camera' = Unmount(camera)
    /\ PageUnchanged

\* capture, enabled while the component has no error: the video's frame (or
\* an empty canvas before the stream is attached) goes to
\* handleCameraCapture: setImage(imageSrc); setShowCamera(false).
capture(i, frame) ==
    /\ page.showCamera
    /\ i \in DOMAIN camera
    /\ camera[i].mounted
    /\ ~camera[i].failed
    /\ page' = Render([setImage(page, page.activeTab,
                                IF camera[i].gum = "resolved" THEN frame
                                ELSE BlankImage)
                          EXCEPT !.showCamera = FALSE])
    /\ camera' = Unmount(camera)
    /\ PageUnchanged

NextPage ==
    \/ \E t \in Tabs : setActiveTab(t)
    \/ \E data \in Images : handleFileUpload(data)
    \/ ReaderOnload
    \/ Clear
    \/ processImage
    \/ DelayElapsed
    \/ SourceRead
    \/ AnalysisResolves
    \/ \E kind \in {"face", "other"} : AnalysisRejects(kind)
    \/ OpenCamera
    \/ \E i \in Mounts : GetUserMediaResolves(i)
    \/ \E i \in Mounts : GetUserMediaRejects(i)
    \/ CloseCamera
    \/ \E i \in Mounts, frame \in Images : capture(i, frame)

SpecPage == InitPage /\ [][NextPage]_vars

-----------------------------------------------------------------------------
(* Properties of a run of analyzeFace *)

Done == pc = "done"
Failed == pc = "failed"

PercentScores(res) ==
    {res.symmetry, res.golden_ratio, res.proportions, res.harmony,
     res.skin_quality, res.jawline, res.cheekbones, res.facial_thirds,
     res.facial_fifths, res.eye_score, res.nose_score, res.masculinity}

\* C1: in every returned result each percentage sub-score lies in [0,100]
\* and overall and potential lie in [0,10].
C1_ScoresInRange ==
    Done => /\ \A v \in PercentScores(result[1]) : v \in 0..100
            /\ result[1].overall \in 0..10
            /\ result[1].potential \in 0..10

Terminal == pc \in {"done", "failed"}

\* A validated face has been scored with a negative symmetry.
C1_Witness == Done /\ validateAnatomy(keypoints) /\ result[1].symmetry < 0

\* C2 as stated: a failing run fails with one of the three named errors.
C2_OnlyThreeErrorKinds ==
    Failed => error \in {NO_FACE_DETECTED, INVALID_FACE_ANGLE, FACE_ALIGNMENT_ERROR}

\* C2: a failing run fails with INVALID_FACE_ANGLE or FACE_ALIGNMENT_ERROR
\* from analyzeFace's own checks and never with NO_FACE_DETECTED; a
\* rejection of the detector's construction, of the image load or of the
\* direct pass, and the TypeError of regularizing a validated set of 469 to
\* 477 points, escape unchanged; a throw of the rotated retry or of the
\* canonical re-detection never does.
C2_ErrorKinds ==
    /\ error # NO_FACE_DETECTED
    /\ Failed <=> error # ""
    /\ Failed => error \in {INVALID_FACE_ANGLE, FACE_ALIGNMENT_ERROR,
                            DetectorInitError, ImageLoadError, DetectorError,
                            TypeError}
    /\ error = DetectorInitError => detector = "null" /\ calls = <<>>
    /\ error = ImageLoadError => img = <<>> /\ calls = <<>>
    /\ error = DetectorError => calls = <<"direct">> /\ returns = <<"throw">>
    /\ error = TypeError => working.len \in (MinPoints + 1)..477
    /\ (\E i \in 2..Len(returns) : returns[i] = "throw") =>
          error \in {"", INVALID_FACE_ANGLE, FACE_ALIGNMENT_ERROR, TypeError}

\* An error of the detector has escaped from the direct pass.
C2_Witness == Failed /\ error = DetectorError /\ returns = <<"throw">>

\* The detector has returned, and every time no face.
AllEmpty == returns # <<>> /\ \A i \in DOMAIN returns : returns[i] = "empty"

\* C3 as stated: a detector that always returns no face is invoked exactly
\* twice, direct then rotated, and the run fails with INVALID_FACE_ANGLE.
C3_EmptyDetectorTwoCalls ==
    (Terminal /\ AllEmpty) =>
        /\ error = INVALID_FACE_ANGLE
        /\ calls = <<"direct", "rotated">>

\* C3: a detector that always returns no face is invoked on the source image
\* and then, if the rotated canvas could be built, on the rotated image;
\* never on a canonical canvas; and the run fails with INVALID_FACE_ANGLE.
C3_EmptyDetectorCalls ==
    AllEmpty =>
        /\ "canonical" \notin Range(calls)
        /\ rotatedCanvas \in {"built", "failed"}
        /\ calls = IF rotatedCanvas = "built" THEN <<"direct", "rotated">>
                   ELSE <<"direct">>
        /\ Terminal => Failed /\ error = INVALID_FACE_ANGLE

\* Both passes have returned no face and the run has ended.
C3_Witness ==
    Terminal /\ AllEmpty /\ calls = <<"direct", "rotated">> /\ rotatedCanvas = "built"

\* No pass has produced a candidate: the direct pass returned no face and
\* the rotated retry, if made, returned none or threw.
NoCandidate ==
    /\ returns # <<>>
    /\ returns[1] = "empty"
    /\ \A i \in DOMAIN returns : returns[i] \in {"empty", "throw"}

\* C4 as stated: no candidate on any pass gives NO_FACE_DETECTED.
C4_NoFaceDetected == (Terminal /\ NoCandidate) => error = NO_FACE_DETECTED

\* C4: when no pass has produced a candidate the run fails with
\* INVALID_FACE_ANGLE.
C4_NoCandidateInvalidFaceAngle ==
    (Terminal /\ NoCandidate) => Failed /\ error = INVALID_FACE_ANGLE

\* The direct pass returned no face, the rotated retry threw, the run failed.
C4_Witness == Failed /\ returns = <<"empty", "throw">> /\ NoCandidate

\* C5: a result is returned only from a regularized set that passes
\* validateAnatomy, its landmarks are that set and its scores are computed
\* from it; a regularized set that fails gives FACE_ALIGNMENT_ERROR and no
\* result.
C5_ResultOnlyFromValidatedSet ==
    /\ Done <=> result # <<>>
    /\ Done => /\ keypoints = regularizeLandmarks(working)
               /\ validateAnatomy(keypoints)
               /\ result[1].landmarks = keypoints
               /\ result[1] = Score(keypoints, img[1])
    /\ (keypoints # NoKp /\ ~validateAnatomy(keypoints)) =>
          Failed /\ error = FACE_ALIGNMENT_ERROR /\ result = <<>>

\* A set that was plausible as detected is implausible once regularized.
C5_Witness ==
    /\ Failed /\ error = FACE_ALIGNMENT_ERROR
    /\ validateAnatomy(working)
    /\ keypoints = regularizeLandmarks(working)
    /\ ~validateAnatomy(keypoints)

\* The re-detection on the canonical canvas has returned.
CanonicalScored ==
    /\ Terminal
    /\ "canonical" \in Range(calls)
    /\ refineFailure = "none"

\* C6: after the canonical re-detection the working set is the mapped-back
\* re-detected set if a face was returned and the mapped set passes
\* validateAnatomy, and otherwise the initial set.
C6_RefinementAdoptsOrFallsBack ==
    CanonicalScored =>
        IF refinedFaces # <<>>
           /\ validateAnatomy(MapBack(AlignGeometry(initial), refinedFaces[1],
                                      initial.frame))
        THEN working = MapBack(AlignGeometry(initial), refinedFaces[1],
                               initial.frame)
        ELSE working = initial

\* A re-detected set that differs from the initial one has been adopted.
C6_Witness ==
    /\ CanonicalScored
    /\ refinedFaces # <<>>
    /\ working # initial
    /\ working = MapBack(AlignGeometry(initial), refinedFaces[1], initial.frame)

\* C7: a failure inside the refinement step does not fail the run: the
\* initial keypoints go on to regularization and the last validation.
C7_RefinementFailureFallsBack ==
    refineFailure # "none" =>
        /\ Terminal
        /\ initial = faces[1]
        /\ working = initial
        /\ error \in {"", FACE_ALIGNMENT_ERROR, TypeError}
        /\ error = TypeError <=> RegularizeThrows(initial)
        /\ ~RegularizeThrows(initial) =>
              /\ keypoints = regularizeLandmarks(initial)
              /\ Done <=> validateAnatomy(keypoints)

\* The canonical re-detection threw and the run returned a result.
C7_Witness == refineFailure = "detector" /\ Done /\ working = initial

AllowedCalls ==
    {<<>>, <<"direct">>, <<"direct", "rotated">>, <<"direct", "canonical">>,
     <<"direct", "rotated", "canonical">>}

\* Some pass before the canonical re-detection produced a plausible set.
ValidBeforeCanonical ==
    \E i \in 1..(Len(calls) - 1) : i <= Len(returns) /\ returns[i] = "valid"

\* C8 as stated: at most three invocations in the order direct, rotated,
\* canonical; the rotated retry is made iff the direct pass returned no
\* face or an implausible set; the canonical re-detection only after a pass
\* produced a plausible set.
C8_CallOrder ==
    /\ calls \in AllowedCalls
    /\ (returns # <<>> /\ returns[1] # "throw") =>
          ("rotated" \in Range(calls) <=> returns[1] \in {"empty", "invalid"})
    /\ "canonical" \in Range(calls) => ValidBeforeCanonical

\* C8: as stated, but the rotated retry is made iff the direct pass returned
\* no face or an implausible set and the rotated canvas could be built.
C8_CallOrderCanvasBuilt ==
    /\ calls \in AllowedCalls
    /\ (returns # <<>> /\ returns[1] # "throw") =>
          ("rotated" \in Range(calls) <=>
              returns[1] \in {"empty", "invalid"} /\ rotatedCanvas = "built")
    /\ "canonical" \in Range(calls) => ValidBeforeCanonical

\* All three invocations have been made.
C8_Witness == Terminal /\ calls = <<"direct", "rotated", "canonical">>

-----------------------------------------------------------------------------
(* The pure functions, applied to inputs drawn from bounded sets.  probe   *)
(* holds the function's name, its arguments and, once it has been applied, *)
(* its value in out.                                                        *)

NormSpan == 3
ProbeEps == 1
ProbeSpan == 4

\* The (min, max) pairs of the call sites of norm, and a grid of pairs.
NormCallBounds ==
    {<<600, 850>>, <<80, 140>>, <<950, 1250>>, <<50, 250>>, <<20, 70>>,
     <<80, 170>>, <<0 - 2 * D, 8 * D>>, <<250, 450>>, <<200, 400>>, <<0, 10 * D>>}
NormGridBounds ==
    {<<a, b>> \in ((0 - NormSpan)..NormSpan) \X ((0 - NormSpan)..NormSpan) : a < b}

\* Arguments around and far from the two bounds, the infinities included.
NormArgs(a, b) ==
    {a - NormSpan * (b - a), a - 1, a, a + 1, (a + b) \div 2, b - 1, b, b + 1,
     b + NormSpan * (b - a), Inf, 0 - Inf}
NormGridArgs == (0 - NormSpan - 2)..(NormSpan + 2)

NormProbesOver(a, b, args) ==
    {[fn |-> "norm", a |-> a, b |-> b, x1 |-> x1, x2 |-> x2, out |-> <<>>] :
        x1 \in args, x2 \in args}

NormProbes ==
    UNION ({NormProbesOver(ab[1], ab[2], NormArgs(ab[1], ab[2])) : ab \in NormCallBounds}
           \cup {NormProbesOver(ab[1], ab[2], NormGridArgs) : ab \in NormGridBounds})

\* The margin of the symmetric face: 5% of its height.
CanonMargin == (dist(CanonPoint(10), CanonPoint(152)) * 5) \div 100

\* Keypoint sets at and around each threshold of the validator: one
\* landmark of the symmetric face moved to e hundredths of a pixel from the
\* threshold, or the chin or the forehead moved by whole pixels (which moves
\* the margin).
ValidateFaces ==
    LET Eps == (0 - ProbeEps)..ProbeEps
        Base(len) == FaceOfLen(len, "source")
        YAt(len, i, y) == MovePoint(Base(len), i, Pt(CanonPoint(i).x, y))
        XAt(len, i, x) == MovePoint(Base(len), i, Pt(x, CanonPoint(i).y))
    IN UNION {
          {Base(len)}
          \cup {YAt(len, i, CanonPoint(1).y - CanonMargin + e) : i \in {33, 263}, e \in Eps}
          \cup {YAt(len, 1, CanonPoint(33).y + CanonMargin + e) : e \in Eps}
          \cup {YAt(len, 1, CanonPoint(13).y - CanonMargin + e) : e \in Eps}
          \cup {YAt(len, 13, CanonPoint(1).y + CanonMargin + e) : e \in Eps}
          \cup {YAt(len, 13, CanonPoint(152).y - CanonMargin + e) : e \in Eps}
          \cup {XAt(len, i, CanonPoint(1).x + e) : i \in {33, 263}, e \in Eps}
          \cup {XAt(len, 1, CanonPoint(i).x + e) : i \in {33, 263}, e \in Eps}
          \cup {YAt(len, 152, CanonPoint(13).y + k * U) : k \in 0..(2 * ProbeSpan)}
          \cup {YAt(len, 10, CanonPoint(10).y - k * 10 * U) : k \in 0..ProbeSpan}
          \cup {MovePoint(YAt(len, 33, CanonPoint(1).y), 13,
                          Pt(CanonPoint(13).x, CanonPoint(152).y + e)) : e \in Eps}
          : len \in {MinPoints - 1, MinPoints, MinPoints + ProbeSpan, 478}}

ValidateProbes == {[fn |-> "validateAnatomy", kp |-> kp, out |-> <<>>] : kp \in ValidateFaces}

\* Complete keypoint sets for the regularizer: the symmetric face with both
\* eye groups moved by eyeDy, the right eye group by rightDy more, the eye
\* groups moved towards each other by inward, the lower lid of the left eye
\* (374) lowered by lidDy, the nose tip at noseY, the mouth centre at mouthY
\* and the chin moved sideways by chinDx.
RegFace(len, eyeDy, rightDy, inward, lidDy, noseY, mouthY, chinDx) ==
    MovePoint(MovePoint(MovePoint(
        MoveY(MoveY(MoveY([FaceOfLen(len, "source") EXCEPT !.pts =
                              ShiftX(ShiftX(FaceOfLen(len, "source").pts,
                                            Range(allRightEye(len)), inward),
                                     Range(allLeftEye(len)), 0 - inward)],
                          EyeIdx, eyeDy),
                    Range(allRightEye(len)), rightDy),
              {374}, lidDy),
        1, Pt(CanonPoint(1).x, noseY)),
        13, Pt(CanonPoint(13).x, mouthY)),
        152, Pt(CanonPoint(152).x + chinDx, CanonPoint(152).y))

RegChinSteps == 5

RegularizeFaces ==
    {RegFace(len, eyeDy, rightDy, inward, lidDy, noseY, mouthY, k * 5 * U) :
        len \in {MinPoints, 478},
        eyeDy \in {0 - 4000, 0, 4000},
        rightDy \in {0, 300, 1500},
        inward \in {0, 800},
        lidDy \in {0, 400},
        noseY \in {10000, 12500, 15500},
        mouthY \in {11500, 15000},
        k \in 0..RegChinSteps}
    \cup {RegFace(len, 0, 0, 0, 0, noseY, 15000, 0) :
            len \in {MinPoints, 478},
            noseY \in {10898, 10899, 11200, 11707, 11708, 14135, 14136}}

RegularizeProbes ==
    {[fn |-> fn, kp |-> kp, out |-> <<>>] :
        fn \in {"regularizeLandmarks", "regularizeLandmarksEarlier"},
        kp \in RegularizeFaces}

\* Landmark sets for cropAndAlignFace: upright, rolled by atan(9/40) and by
\* atan(3/4), at half the size, and with every landmark on one point (a
\* bounding box of zero width and height).
Rolled == RotateAbout(Canon, 10000, 10090, 4, 3, 5)
HalfSize ==
    [Canon EXCEPT !.pts = [i \in DOMAIN Canon.pts |->
                              Pt(Canon.pts[i].x \div 2, Canon.pts[i].y \div 2)]]
Collapsed ==
    [Canon EXCEPT !.pts = [i \in DOMAIN Canon.pts |-> Pt(10000, 10000)]]
AlignFaces == {Canon, Tilted, Rolled, HalfSize, Collapsed}

\* Source points on a grid over the image.
AlignGridSteps == 5
AlignPoints ==
    {Pt(i * 4069, j * 4069) : i \in 0..AlignGridSteps, j \in 0..AlignGridSteps}
AlignProbes ==
    {[fn |-> fn, landmarks |-> kp, p |-> p, out |-> <<>>] :
        fn \in {"cropAndAlignFace", "cropAndAlignFaceEarliest"},
        kp \in AlignFaces, p \in AlignPoints}

\* Keypoint sets for the last step of analyzeFace: the canonical face with
\* both eyes moved (mirrored), the cheekbone points (123, 352) and the jaw
\* points (172, 397) moved apart, or both pairs moved onto the midline
\* (cheekDx = -54 px and jawDx = -43 px: two widths of 0), the mouth corners (61, 291) as they are,
\* closer, or both on the midline landmark 168, the chin (152) lower or
\* higher, and the points 263 and 352 moved to the side by asym.
LipCorner(lips, i) ==
    CASE lips = "canon" -> CanonPoint(i)
      [] lips = "narrow" -> Pt(IF i = 61 THEN 8000 ELSE 12000, 15000)
      [] OTHER -> CanonPoint(168)

ScoreFace(len, eyeDy, inward, cheekDx, jawDx, lips, chinDy, asym) ==
    LET base == RegFace(len, eyeDy, 0, inward, 0, 12500, 15000, 0)
    IN [base EXCEPT
          !.pts[123] = Pt(CanonPoint(123).x - cheekDx, CanonPoint(123).y),
          !.pts[352] = Pt(CanonPoint(352).x + cheekDx + asym, CanonPoint(352).y),
          !.pts[172] = Pt(CanonPoint(172).x - jawDx, CanonPoint(172).y),
          !.pts[397] = Pt(CanonPoint(397).x + jawDx, CanonPoint(397).y),
          !.pts[61] = LipCorner(lips, 61),
          !.pts[291] = LipCorner(lips, 291),
          !.pts[152] = Pt(CanonPoint(152).x, CanonPoint(152).y + chinDy),
          !.pts[263] = Pt(base.pts[263].x + asym, base.pts[263].y)]

ScoreFaces ==
    {ScoreFace(len, eyeDy, inward, cheekDx, jawDx, lips, chinDy, asym) :
        len \in {MinPoints, 478}, eyeDy \in {0 - 4000, 0}, inward \in {0, 800},
        cheekDx \in {0, 600}, jawDx \in {0 - 1500, 0, 1200},
        lips \in {"canon", "narrow", "centre"},
        chinDy \in {0 - 1800, 0, 2000}, asym \in {0, 500}}
    \cup
    {ScoreFace(len, 0, inward, 0 - 5400, 0 - 4300, lips, chinDy, 0) :
        len \in {MinPoints, 478}, inward \in {0, 800},
        lips \in {"canon", "narrow", "centre"}, chinDy \in {0 - 1800, 0, 2000}}
    \cup
    {MovePoint(ScoreFace(len, 0, 0, 0, 0, "canon", 0, 0), 172, CanonPoint(i)) :
        len \in {MinPoints, 478}, i \in {152, 234}}

ScoreProbes ==
    {[fn |-> "analyzeFace", kp |-> kp, q |-> q, out |-> <<>>] :
        kp \in ScoreFaces, q \in QualitySet}

\* Grey images up to QualityMaxSide pixels a side, the empty ones included:
\* uniform, striped, and black with one white pixel.
QualityMaxSide == 3
GreyLevel(pattern, k) ==
    CASE pattern = "black" -> 0
      [] pattern = "grey" -> 100
      [] pattern = "white" -> 255
      [] pattern = "stripes" -> IF k % 2 = 0 THEN 255 ELSE 0
      [] OTHER -> IF k = 5 THEN 255 ELSE 0
QualityImages ==
    {[kind |-> kind, w |-> w, h |-> h, px |-> [k \in 1..(w * h) |-> GreyLevel(pattern, k)]] :
        kind \in {"image", "canvas"}, w \in 0..QualityMaxSide, h \in 0..QualityMaxSide,
        pattern \in {"black", "grey", "white", "stripes", "spot"}}
QualityProbes ==
    {[fn |-> "getQualityMetrics", image |-> image, hasCtx |-> hasCtx, out |-> <<>>] :
        image \in QualityImages, hasCtx \in BOOLEAN}

\* Widths and heights for determineFaceShape, on and around the thresholds
\* 1.45, 0.9 and 0.8, and 0 (a quotient of Infinity or NaN).
ShapeProbes ==
    {[fn |-> "determineFaceShape", faceWidth |-> fw, faceHeight |-> fh,
      jawWidth |-> jw, foreheadWidth |-> fow, out |-> <<>>] :
        fw \in {0, 100, 200}, fh \in {0, 144, 145, 146, 290, 291},
        jw \in {0, 79, 80, 81, 89, 90, 91, 120}, fow \in {0, 100}}

InitPure ==
    /\ pc = "getDetector"
    /\ detector = "null"
    /\ img = <<>>
    /\ faces = <<>>
    /\ calls = <<>>
    /\ returns = <<>>
    /\ rotatedCanvas = "none"
    /\ initial = NoKp
    /\ refinedFaces = <<>>
    /\ refineFailure = "none"
    /\ working = NoKp
    /\ keypoints = NoKp
    /\ result = <<>>
    /\ error = ""
    /\ proc = NoProc
    /\ page = NoPage
    /\ camera = <<>>
    /\ probe \in ShapeProbes \cup QualityProbes \cup ScoreProbes \cup AlignProbes \cup RegularizeProbes \cup NormProbes \cup ValidateProbes

PipelineUnchanged ==
    UNCHANGED <<pc, detector, img, faces, calls, returns, rotatedCanvas,
                initial, refinedFaces, refineFailure, working, keypoints,
                result, error, proc, page, camera>>

ApplyNorm ==
    /\ probe.fn = "norm"
    /\ probe.out = <<>>
    /\ probe' = [probe EXCEPT !.out = <<norm(probe.x1, probe.a, probe.b),
                                        norm(probe.x2, probe.a, probe.b)>>]
    /\ PipelineUnchanged

ApplyValidate ==
    /\ probe.fn = "validateAnatomy"
    /\ probe.out = <<>>
    /\ probe' = [probe EXCEPT !.out = <<validateAnatomy(probe.kp)>>]
    /\ PipelineUnchanged

\* regularizeLandmarks applied once, and once more to its own result.
ApplyRegularize ==
    /\ probe.fn = "regularizeLandmarks"
    /\ probe.out = <<>>
    /\ probe' = [probe EXCEPT !.out =
                    <<regularizeLandmarks(probe.kp),
                      regularizeLandmarks(regularizeLandmarks(probe.kp)),
                      CallerAfterRegularize(probe.kp)>>]
    /\ PipelineUnchanged

\* The earlier variant applied once: its result, and the caller's set after
\* the call.
ApplyRegularizeEarlier ==
    /\ probe.fn = "regularizeLandmarksEarlier"
    /\ probe.out = <<>>
    /\ probe' = [probe EXCEPT !.out =
                    <<regularizeLandmarksEarlier(probe.kp),
                      CallerAfterRegularizeEarlier(probe.kp)>>]
    /\ PipelineUnchanged

\* A source point through the transform the canvas is drawn with, and the
\* canvas point through the mapPointBack of the same call.
ApplyAlign ==
    /\ probe.fn = "cropAndAlignFace"
    /\ probe.out = <<>>
    /\ probe' = [probe EXCEPT !.out =
                    <<forwardPoint(AlignGeometry(probe.landmarks), probe.p),
                      mapPointBack(AlignGeometry(probe.landmarks),
                          forwardPoint(AlignGeometry(probe.landmarks), probe.p))>>]
    /\ PipelineUnchanged

ApplyAlignEarliest ==
    /\ probe.fn = "cropAndAlignFaceEarliest"
    /\ probe.out = <<>>
    /\ probe' = [probe EXCEPT !.out =
                    <<forwardPointEarliest(AlignGeometryEarliest(probe.landmarks), probe.p),
                      mapPointBackEarliest(AlignGeometryEarliest(probe.landmarks),
                          forwardPointEarliest(AlignGeometryEarliest(probe.landmarks),
                                               probe.p))>>]
    /\ PipelineUnchanged

\* The last step of analyzeFace on the keypoints kp and the Quality Metrics
\* q: regularization, the last validation, the scores.
FinalStep(kp, q) ==
    IF RegularizeThrows(kp) THEN <<"error", TypeError>>
    ELSE IF ~validateAnatomy(regularizeLandmarks(kp))
         THEN <<"error", FACE_ALIGNMENT_ERROR>>
         ELSE <<"result", Score(regularizeLandmarks(kp), q)>>

ApplyScore ==
    /\ probe.fn = "analyzeFace"
    /\ probe.out = <<>>
    /\ probe' = [probe EXCEPT !.out = FinalStep(probe.kp, probe.q)]
    /\ PipelineUnchanged

ApplyQuality ==
    /\ probe.fn = "getQualityMetrics"
    /\ probe.out = <<>>
    /\ probe' = [probe EXCEPT !.out = getQualityMetrics(probe.image, probe.hasCtx)]
    /\ PipelineUnchanged

ApplyShape ==
    /\ probe.fn = "determineFaceShape"
    /\ probe.out = <<>>
    /\ probe' = [probe EXCEPT !.out =
                    <<determineFaceShape(probe.faceWidth, probe.faceHeight,
                                         probe.jawWidth, probe.foreheadWidth)>>]
    /\ PipelineUnchanged

NextPure ==
    \/ ApplyShape
    \/ ApplyQuality
    \/ ApplyScore
    \/ ApplyAlign
    \/ ApplyAlignEarliest
    \/ ApplyRegularizeEarlier
    \/ ApplyRegularize
    \/ ApplyNorm
    \/ ApplyValidate

SpecPure == InitPure /\ [][NextPure]_vars

Applied(fn) == probe.fn = fn /\ probe.out # <<>>

\* C9: validateAnatomy returns true iff the set has at least 468 points and,
\* with margin = 0.05 * dist(point 10, point 152), both outer eye corners
\* (33, 263) have y < nose(1).y - margin, nose.y < mouth(13).y - margin,
\* mouth.y < chin(152).y - margin and x(33) < x(nose) < x(263).
C9_ValidateAnatomyIff ==
    Applied("validateAnatomy") =>
        LET pts == probe.kp.pts
            margin == (5 * dist(pts[10], pts[152])) \div 100
        IN probe.out[1] <=>
              /\ probe.kp.len >= 468
              /\ pts[33].y < pts[1].y - margin
              /\ pts[263].y < pts[1].y - margin
              /\ pts[1].y < pts[13].y - margin
              /\ pts[13].y < pts[152].y - margin
              /\ pts[33].x < pts[1].x
              /\ pts[1].x < pts[263].x

\* A set rejected for the margin alone: the mouth is above the chin, but by
\* exactly the margin.
C9_Witness ==
    /\ Applied("validateAnatomy")
    /\ probe.out = <<FALSE>>
    /\ probe.kp.len >= 468
    /\ probe.kp.pts[13].y = probe.kp.pts[152].y - CanonMargin
    /\ validateAnatomy(MovePoint(probe.kp, 13, Pt(probe.kp.pts[13].x, probe.kp.pts[13].y - 1)))

\* C10: for a < b, norm(x, a, b) is non-decreasing in x, lies in [0,100], is
\* 0 for x <= a and 100 for x >= b.
C10_NormMonotoneBounded ==
    Applied("norm") =>
        /\ probe.a < probe.b
        /\ \A i \in {1, 2} : probe.out[i] \in 0..(100 * P)
        /\ probe.x1 <= probe.x2 => probe.out[1] <= probe.out[2]
        /\ probe.x1 <= probe.a => probe.out[1] = 0
        /\ probe.x2 <= probe.a => probe.out[2] = 0
        /\ probe.x1 >= probe.b => probe.out[1] = 100 * P
        /\ probe.x2 >= probe.b => probe.out[2] = 100 * P

\* norm at the two bounds of a call site, and strictly between them.
C10_Witness ==
    /\ Applied("norm")
    /\ probe.x1 = probe.a /\ probe.x2 = probe.b
    /\ probe.out = <<0, 100 * P>>
    /\ norm((probe.a + probe.b) \div 2, probe.a, probe.b) \in 1..(100 * P - 1)

\* C11 as stated: regularizeLandmarks applied to its own result changes
\* nothing.
C11_Idempotent ==
    Applied("regularizeLandmarks") => probe.out[2] = probe.out[1]

\* Step 5 has nothing left to do on kp: the chin is within a tenth of the
\* face width of the cheeks' midpoint.
ChinSettled(kp) ==
    Abs(kp.pts[152].x - (kp.pts[234].x + kp.pts[454].x) \div 2)
        <= (RegZones(kp.pts).faceWidth * 10) \div 100

\* Step 1 has nothing left to do on kp: both eye groups lie in the eye zone.
EyesSettled(kp) ==
    \A group \in {Range(allRightEye(kp.len)), Range(allLeftEye(kp.len))} :
        /\ MaxYOf(kp.pts, group) <= RegZones(kp.pts).eyeZoneBottom
        /\ MinYOf(kp.pts, group) >= RegZones(kp.pts).eyeZoneTop

\* C11: regularizeLandmarks applied to its own result changes nothing
\* exactly when the first application has left the chin within a tenth of
\* the face width of the cheeks' midpoint and both eye groups in the eye
\* zone; otherwise the second application moves points again.
C11_IdempotentWhenSettled ==
    Applied("regularizeLandmarks") =>
        (probe.out[2] = probe.out[1]
            <=> ChinSettled(probe.out[1]) /\ EyesSettled(probe.out[1]))

\* A set the regularizer changed in every step and does not change again.
C11_Witness ==
    /\ Applied("regularizeLandmarks")
    /\ probe.out[2] = probe.out[1]
    /\ probe.out[1].pts[152].x # probe.kp.pts[152].x
    /\ probe.out[1].pts[1].y # probe.kp.pts[1].y
    /\ probe.out[1].pts[13].y # probe.kp.pts[13].y
    /\ probe.out[1].pts[33] # probe.kp.pts[33]

\* C12 as stated: after regularizeLandmarks, in either variant, the caller's
\* keypoint set has the coordinates it had before the call.
C12_InputNeverChanged ==
    /\ Applied("regularizeLandmarks") => probe.out[3] = probe.kp
    /\ Applied("regularizeLandmarksEarlier") => probe.out[2] = probe.kp

\* The earlier variant moved a point of the caller's set: the caller reads
\* the regularized coordinates from its own sequence.
C12_Witness ==
    /\ Applied("regularizeLandmarksEarlier")
    /\ probe.out[2] # probe.kp
    /\ probe.out[2] = probe.out[1]

\* Coordinates are carried in hundredths of a pixel and every step of the
\* two transforms is rounded to the nearest hundredth: a point that comes
\* back within the rounding of the four steps is the original point.
RoundingSlack(landmarks) == 2 + AlignGeometry(landmarks).safeDim \div ScaledTarget
SamePoint(p, q, slack) == Abs(p.x - q.x) <= slack /\ Abs(p.y - q.y) <= slack

\* The round trip of the newest cropAndAlignFace, degenerate box included.
RoundTripNewest ==
    Applied("cropAndAlignFace") =>
        SamePoint(probe.out[2], probe.p, RoundingSlack(probe.landmarks))

\* C13 as stated: in both variants of cropAndAlignFace, the forward
\* canonical transform followed by mapPointBack returns the original point,
\* also when the landmarks' bounding box has zero width and height.
C13_RoundTrip ==
    /\ RoundTripNewest
    /\ Applied("cropAndAlignFaceEarliest") =>
           SamePoint(probe.out[2], probe.p, RoundingSlack(probe.landmarks))

\* The earliest variant on the degenerate box: a point 100 px and more away
\* from the landmarks comes back as the landmarks' centre.
C13_Witness ==
    /\ Applied("cropAndAlignFaceEarliest")
    /\ probe.landmarks = Collapsed
    /\ probe.p = Pt(0, 0)
    /\ probe.out[2] = Pt(10000, 10000)

\* A result of the last step of analyzeFace.
Scored == Applied("analyzeFace") /\ probe.out[1] = "result"

\* The left and right landmarks of kp are mirror images of each other about
\* the vertical line through the midline landmark 168.
MirrorOf(kp, p) == Pt(2 * kp.pts[168].x - p.x, p.y)
Mirrored(kp) ==
    /\ \A pair \in {<<234, 454>>, <<123, 352>>, <<172, 397>>, <<61, 291>>,
                    <<102, 331>>, <<103, 332>>} :
            kp.pts[pair[2]] = MirrorOf(kp, kp.pts[pair[1]])
    /\ \A k \in DOMAIN RIGHT_EYE_INDICES :
            kp.pts[LEFT_EYE_INDICES[k]] = MirrorOf(kp, kp.pts[RIGHT_EYE_INDICES[k]])
    /\ kp.len > MinPoints =>
            {kp.pts[i] : i \in Range(LEFT_IRIS_INDICES)}
                = {MirrorOf(kp, kp.pts[i]) : i \in Range(RIGHT_IRIS_INDICES)}

\* C14: for a keypoint set whose left and right landmarks are mirror images
\* about the vertical line through landmark 168, the symmetry score
\* analyzeFace returns is exactly 100.
C14_MirroredSymmetry100 ==
    Scored /\ Mirrored(probe.kp) => probe.out[2].symmetry = 100

\* A mirrored set whose eyes the regularizer moved, with the mouth corners on
\* landmark 168 itself (average = 0 in calculateSymmetry).
C14_Witness ==
    /\ Scored
    /\ Mirrored(probe.kp)
    /\ probe.kp.pts[61] = probe.kp.pts[168]
    /\ regularizeLandmarks(probe.kp).pts[33] # probe.kp.pts[33]
    /\ probe.out[2].symmetry = 100

\* The two ratios of the golden-ratio score, as analyzeFace measures them on
\* the regularized keypoints (thousandths).
FaceRatioOf(kp) ==
    Ratio(dist(kp.pts[10], kp.pts[152]), dist(kp.pts[234], kp.pts[454]))
MouthNoseRatioOf(kp) ==
    Ratio(dist(kp.pts[61], kp.pts[291]), dist(kp.pts[102], kp.pts[331]))

\* max(0, 1 - |ratio - 1.618| / 0.5) * 100, in hundredths of a score point.
GoldenSubScore(ratio) ==
    Max(0, 100 * P - (Abs(ratio - 1618) * 100 * P) \div 500)

\* C15: golden_ratio is the rounded mean of the two sub-scores
\* max(0, 1 - |ratio - 1.618| / 0.5) * 100 of faceHeight / faceWidth and
\* mouthWidth / noseWidth; it is 100 when both ratios are 1.618.
C15_GoldenRatio ==
    Scored =>
        /\ probe.out[2].golden_ratio =
               RoundDiv(GoldenSubScore(FaceRatioOf(regularizeLandmarks(probe.kp)))
                        + GoldenSubScore(MouthNoseRatioOf(regularizeLandmarks(probe.kp))),
                        2 * P)
        /\ (FaceRatioOf(regularizeLandmarks(probe.kp)) = 1618
            /\ MouthNoseRatioOf(regularizeLandmarks(probe.kp)) = 1618)
               => probe.out[2].golden_ratio = 100

\* A face with both ratios at 1.618 and the golden-ratio score 100.
C15_Witness ==
    /\ Scored
    /\ FaceRatioOf(regularizeLandmarks(probe.kp)) = 1618
    /\ MouthNoseRatioOf(regularizeLandmarks(probe.kp)) = 1618
    /\ probe.out[2].golden_ratio = 100

\* C16 as stated: on an image of zero pixels getQualityMetrics does not fail
\* and returns brightness = contrast = sharpness = 0.
C16_EmptyImageZeros ==
    Applied("getQualityMetrics") /\ probe.image.w * probe.image.h = 0 =>
        probe.out = <<"result", [brightness |-> 0, contrast |-> 0, sharpness |-> 0]>>

\* getQualityMetrics fails on an image element of zero pixels.
C16_Witness ==
    /\ Applied("getQualityMetrics")
    /\ probe.image.kind = "image"
    /\ probe.image.w = 0 /\ probe.image.h = 0
    /\ probe.out = <<"error", IndexSizeError>>

\* The case of C17: the scored keypoints are a valid, upright,
\* mirror-symmetric 468-point set with faceHeight / faceWidth and
\* mouthWidth / noseWidth at 1.618, and the Quality Metrics are sharpness 200,
\* contrast 45, brightness 125.
IdealCase ==
    /\ Scored
    /\ probe.q = [brightness |-> 125, contrast |-> 45, sharpness |-> 200]
    /\ probe.kp.len = MinPoints
    /\ validateAnatomy(probe.kp)
    /\ Mirrored(probe.kp)
    /\ FaceRatioOf(probe.kp) = 1618
    /\ MouthNoseRatioOf(probe.kp) = 1618

\* C17 as stated: in that case overall >= 9 and the warnings list is empty.
C17_IdealFaceOverall9 ==
    IdealCase => /\ IsNum(probe.out[2].overall)
                 /\ probe.out[2].overall >= 9
                 /\ probe.out[2].warnings = {}

\* C17: in that case the warnings list is empty, symmetry and golden_ratio
\* are 100 and skin_quality is 73.  If the cheekbone points and the jaw
\* points both coincide (cheek_width / jaw_width = 0 / 0), cheekbones and
\* overall are NaN; otherwise overall >= 9 exactly when the other four terms
\* of the weighted sum make up the rest of 85:
\* 0.15 harmony + 0.15 proportions + 0.10 jawline + 0.08 cheekbones >= 34.89.
C17_IdealFaceOverall ==
    IdealCase =>
        /\ probe.out[2].warnings = {}
        /\ probe.out[2].symmetry = 100
        /\ probe.out[2].golden_ratio = 100
        /\ probe.out[2].skin_quality = 73
        /\ IF probe.kp.pts[123] = probe.kp.pts[352] /\ probe.kp.pts[172] = probe.kp.pts[397]
           THEN probe.out[2].cheekbones = NaN /\ probe.out[2].overall = NaN
           ELSE probe.out[2].overall >= 9
                  <=> 15 * probe.out[2].harmony + 15 * probe.out[2].proportions
                      + 10 * probe.out[2].jawline + 8 * probe.out[2].cheekbones >= 3489

\* The canonical face (equal thirds and fifths) with ideal Quality Metrics:
\* overall 10, no warnings.
C17_Witness ==
    /\ IdealCase
    /\ probe.kp = Canon468
    /\ probe.out[2].overall = 10
    /\ probe.out[2].warnings = {}

\* C18 as stated: createDetector is invoked at most once in the lifetime of
\* the process, whatever the interleaving of the calls, and all calls use
\* the same handle.
C18_DetectorCreatedOnce ==
    /\ proc.created <= 1
    /\ \A c, d \in DOMAIN proc.pc :
          proc.handle[c] # 0 /\ proc.handle[d] # 0 => proc.handle[c] = proc.handle[d]

\* Two calls await a createDetector of their own at the same time.
C18_Witness ==
    \E c, d \in DOMAIN proc.pc :
        /\ c # d
        /\ proc.pc[c] = "creating" /\ proc.pc[d] = "creating"
        /\ proc.handle[c] # proc.handle[d]
        /\ proc.created = 2

\* When overall is a number: potential is overall + (100 - softFactors) *
\* 0.02, softFactors the mean of skin_quality and cheekbones, clamped to
\* [overall, 10] and rounded.
PotentialOfNumbers ==
    Scored /\ IsNum(probe.out[2].overall) =>
        /\ probe.out[2].overall <= probe.out[2].potential
        /\ probe.out[2].potential <= 10
        /\ 200 - probe.out[2].skin_quality - probe.out[2].cheekbones >= 0
        /\ probe.out[2].potential =
               RoundDiv(clamp(100 * probe.out[2].overall
                              + (200 - probe.out[2].skin_quality - probe.out[2].cheekbones),
                              100 * probe.out[2].overall, 1000), 100)

\* C19 as stated: in every returned result overall and potential are
\* numbers with overall <= potential <= 10.
C19_PotentialBetween ==
    Scored =>
        /\ IsNum(probe.out[2].overall) /\ IsNum(probe.out[2].potential)
        /\ probe.out[2].overall <= probe.out[2].potential
        /\ probe.out[2].potential <= 10

\* A validated face whose cheekbone points coincide and whose jaw points
\* coincide is scored with overall = potential = NaN.
C19_Witness ==
    /\ Scored
    /\ validateAnatomy(regularizeLandmarks(probe.kp))
    /\ probe.kp.pts[123] = probe.kp.pts[352]
    /\ probe.kp.pts[172] = probe.kp.pts[397]
    /\ probe.out[2].overall = NaN
    /\ probe.out[2].potential = NaN

\* a / b > n / 100 as the quotient of two lengths decides it: Infinity
\* (a > 0 = b) is greater, NaN (a = 0 = b) is not.
QuotientAbove(a, b, n) ==
    \/ b = 0 /\ a > 0
    \/ b > 0 /\ 100 * a > n * b

\* C20: determineFaceShape returns one of the five labels, by the tree:
\* faceHeight / faceWidth > 1.45 -> Rectangular if jawWidth / foreheadWidth
\* > 0.9, else Heart if jawWidth < 0.8 x foreheadWidth, else Oval;
\* otherwise Square if jawWidth / foreheadWidth > 0.9, else Round.
C20_FaceShapeTree ==
    Applied("determineFaceShape") =>
        /\ probe.out[1] \in {"Rectangular", "Heart", "Oval", "Square", "Round"}
        /\ probe.out[1] =
              IF QuotientAbove(probe.faceHeight, probe.faceWidth, 145)
              THEN IF QuotientAbove(probe.jawWidth, probe.foreheadWidth, 90)
                   THEN "Rectangular"
                   ELSE IF 10 * probe.jawWidth < 8 * probe.foreheadWidth THEN "Heart"
                   ELSE "Oval"
              ELSE IF QuotientAbove(probe.jawWidth, probe.foreheadWidth, 90)
                   THEN "Square"
                   ELSE "Round"

\* A long face whose jaw is exactly 0.8 of the forehead: Oval, not Heart.
C20_Witness ==
    /\ Applied("determineFaceShape")
    /\ probe.faceHeight = 146 /\ probe.faceWidth = 100
    /\ probe.jawWidth = 80 /\ probe.foreheadWidth = 100
    /\ probe.out = <<"Oval">>

(* C21: warnings of a returned result.                                      *)
SharpnessWarnings == {"Image blurry", "low_sharpness"}
BrightnessWarnings == {"Lighting too dark", "Lighting too bright", "bad_brightness"}

Regularized == Applied("regularizeLandmarks")
NoseIn == probe.kp.pts[1]
NoseOut == probe.out[1].pts[1]
NoseZoneBottom == RegZones(probe.kp.pts).faceTop
                  + (RegZones(probe.kp.pts).faceHeight * 75) \div 100
NoseMarginTop == RegZones(probe.kp.pts).eyeZoneBottom
                 + (RegZones(probe.kp.pts).faceHeight * 5) \div 100

\* C22 as stated: the nose tip ends between the bottom of the eye zone plus
\* 5% of the face height and 75% of the face height; outside this band it is
\* moved to the nearer bound, inside it is left unchanged.
C22_NoseBandWithMargin ==
    Regularized =>
        /\ NoseMarginTop <= NoseOut.y
        /\ NoseOut.y <= NoseZoneBottom
        /\ NoseOut.y = IF NoseIn.y > NoseZoneBottom THEN NoseZoneBottom
                       ELSE IF NoseIn.y < NoseMarginTop THEN NoseMarginTop
                       ELSE NoseIn.y

\* C22 amended: the nose tip ends between the bottom of the eye zone (55% of
\* the face height) and 75% of the face height.  Below the eye zone's bottom
\* it is left unchanged up to 75% and set to 75% beyond; above the eye zone's
\* bottom it is set to that bottom plus 5% of the face height.  Its x is kept.
C22_NoseBand ==
    Regularized =>
        /\ RegZones(probe.kp.pts).eyeZoneBottom <= NoseOut.y
        /\ NoseOut.y <= NoseZoneBottom
        /\ NoseOut.x = NoseIn.x
        /\ NoseOut.y = IF NoseIn.y > NoseZoneBottom THEN NoseZoneBottom
                       ELSE IF NoseIn.y < RegZones(probe.kp.pts).eyeZoneBottom
                            THEN NoseMarginTop
                            ELSE NoseIn.y

\* A nose tip between the eye zone's bottom and the margin came back unchanged.
C22_Witness ==
    /\ Regularized
    /\ RegZones(probe.kp.pts).eyeZoneBottom <= NoseIn.y
    /\ NoseIn.y < NoseMarginTop
    /\ NoseOut = NoseIn

(* C23: what regularizeLandmarks leaves alone.                              *)
RightGroup == Range(allRightEye(probe.kp.len))
LeftGroup == Range(allLeftEye(probe.kp.len))
Offset(i) == Pt(probe.out[1].pts[i].x - probe.kp.pts[i].x,
                probe.out[1].pts[i].y - probe.kp.pts[i].y)

\* C23: the result has the length and the indices of the input; every point
\* outside the two eye groups, the nose tip (1), the mouth centre (13) and
\* the chin (152) has the input's coordinates; and the points of one eye
\* group are all moved by the same vector.
C23_FrameAndEyeGroups ==
    Regularized =>
        /\ probe.out[1].len = probe.kp.len
        /\ DOMAIN probe.out[1].pts = DOMAIN probe.kp.pts
        /\ \A i \in DOMAIN probe.kp.pts \ (RightGroup \cup LeftGroup \cup {1, 13, 152}) :
              probe.out[1].pts[i] = probe.kp.pts[i]
        /\ \A i, j \in RightGroup : Offset(i) = Offset(j)
        /\ \A i, j \in LeftGroup : Offset(i) = Offset(j)

\* Both eye groups, irises included, were moved, by different vectors, and
\* the nose tip, the mouth centre and the chin were moved too.
C23_Witness ==
    /\ Regularized
    /\ probe.kp.len = 478
    /\ Offset(33).x # 0 /\ Offset(33).y # 0
    /\ Offset(263).y # 0
    /\ Offset(473) = Offset(33)
    /\ Offset(468) = Offset(263)
    /\ Offset(263) # Offset(33)
    /\ Offset(1).y # 0 /\ Offset(13).y # 0 /\ Offset(152).x # 0

(* C24: canthal tilt.                                                        *)
Landmarks == probe.out[2].landmarks
TiltRight == calculateCanthalTilt(Landmarks.pts[133], Landmarks.pts[33])
TiltLeft == calculateCanthalTilt(Landmarks.pts[362], Landmarks.pts[263])
LevelCorners ==
    /\ Landmarks.pts[33].x < Landmarks.pts[133].x
    /\ Landmarks.pts[133].x < Landmarks.pts[362].x
    /\ Landmarks.pts[362].x < Landmarks.pts[263].x
    /\ Landmarks.pts[33].y = Landmarks.pts[133].y
    /\ Landmarks.pts[362].y = Landmarks.pts[263].y

\* C24 as stated: with the outer corners outside the inner ones and both
\* corners of each eye at one height, each eye's tilt and canthal_tilt are 0;
\* and the two eyes of a mirror-symmetric face have equal tilts.
C24_LevelEyesTiltZero ==
    Scored =>
        /\ LevelCorners =>
              TiltRight = 0 /\ TiltLeft = 0 /\ probe.out[2].canthal_tilt = 0
        /\ Mirrored(Landmarks) => TiltRight = TiltLeft

\* A mirror-symmetric face with level eye corners was scored: the right
\* eye's tilt is 180 degrees, the left eye's 0, canthal_tilt 90.0.
C24_Witness ==
    /\ Scored
    /\ LevelCorners
    /\ Mirrored(Landmarks)
    /\ TiltRight = 180 * D
    /\ TiltLeft = 0
    /\ probe.out[2].canthal_tilt = 900

\* C25 as stated: the jaw_angle of every returned result is a number of
\* degrees in [0, 180], also when a jaw corner (172, 397) coincides with its
\* ear landmark (234, 454) or with the chin (152).
C25_JawAngleDefined ==
    Scored =>
        /\ IsNum(probe.out[2].jaw_angle)
        /\ 0 <= probe.out[2].jaw_angle
        /\ probe.out[2].jaw_angle <= 1800

\* A result was returned for a validated set whose jaw corner 172 lies on
\* the chin, with jaw_angle NaN.
C25_Witness ==
    /\ Scored
    /\ Landmarks.pts[172] = Landmarks.pts[152]
    /\ validateAnatomy(Landmarks)
    /\ probe.out[2].jaw_angle = NaN

\* C26 as stated: a working set that passes validateAnatomy still passes it
\* once regularized, and the run does not end in FACE_ALIGNMENT_ERROR.
C26_PlausibilityPreserved ==
    (keypoints # NoKp /\ validateAnatomy(working)) =>
        /\ validateAnatomy(keypoints)
        /\ error # FACE_ALIGNMENT_ERROR

\* The regularizer moved the nose tip and the mouth centre of a plausible
\* working set, and the run failed the last validation.
C26_Witness ==
    /\ Failed
    /\ error = FACE_ALIGNMENT_ERROR
    /\ validateAnatomy(working)
    /\ keypoints = regularizeLandmarks(working)
    /\ keypoints.pts[1].y > working.pts[1].y
    /\ keypoints.pts[13].y > working.pts[13].y
    /\ keypoints.pts[1].y >= keypoints.pts[13].y
                             - (dist(keypoints.pts[10], keypoints.pts[152]) * 5) \div 100

\* C27 as stated: regularizeLandmarks completes on every working set of at
\* least 468 points, the lengths 469 to 477 included: the run goes on with
\* the regularized set and no TypeError is raised.
C27_RegularizeCompletes ==
    (Terminal /\ working # NoKp /\ working.len >= MinPoints) =>
        /\ error # TypeError
        /\ keypoints = regularizeLandmarks(working)

\* A validated working set with only some of the iris points made
\* regularizeLandmarks raise a TypeError: the run failed with no
\* regularized set.
C27_Witness ==
    /\ Failed
    /\ error = TypeError
    /\ working.len > MinPoints
    /\ working.len < 478
    /\ validateAnatomy(working)
    /\ keypoints = NoKp

\* C28 as stated: the landmarks of every returned result are in the
\* coordinate frame of the source image, also when the initial set came from
\* the detector run on the rotated canvas.
C28_LandmarksInSourceFrame ==
    Done =>
        /\ result[1].landmarks.frame = "source"
        /\ initial.frame = "source"

\* The direct pass found no plausible face, the rotated retry did, and the
\* returned landmarks are in the rotated canvas's coordinates.
C28_Witness ==
    /\ Done
    /\ Len(returns) >= 2
    /\ returns[1] \in {"empty", "invalid"}
    /\ returns[2] = "valid"
    /\ rotatedCanvas = "built"
    /\ initial.frame = "rotated"
    /\ result[1].landmarks.frame = "rotated"

(* C29: results and images of the page.                                     *)

\* C29 as stated: the result stored for a tab was computed from the image
\* stored for that tab.
C29_ResultOfCurrentImage ==
    \A t \in Tabs : page.result[t] # "null" => page.result[t] = page.image[t]

\* The front tab's image was cleared and replaced while its analysis ran,
\* and the analysis of the previous image installed its result.
C29_Witness ==
    /\ page.run.pc = "idle"
    /\ ~page.loading
    /\ page.image["front"] = "b"
    /\ page.result["front"] = "a"

\* C30 as stated: no CameraCapture that has been unmounted holds a live
\* camera track.
C30_NoLiveTrackAfterUnmount ==
    \A i \in DOMAIN camera : ~camera[i].mounted => ~camera[i].live

\* A CameraCapture was unmounted while getUserMedia was pending; the stream
\* arrived afterwards and its tracks stay live.
C30_Witness ==
    \E i \in DOMAIN camera :
        /\ ~camera[i].mounted
        /\ camera[i].gum = "resolved"
        /\ camera[i].live
        /\ ~page.showCamera

====
